---- MODULE Spec2Model ----
(***************************************************************************)
(* Procedural tree generator: seeded random source (lsystem/random.ts),    *)
(* the stochastic L-system engine (lsystem/engine.ts), the 3D turtle       *)
(* (tree/turtle3d.ts) and the branch and leaf geometry builders.           *)
(*                                                                         *)
(* Numbers.  A 32-bit word is a pair <<hi, lo>> of 16-bit limbs, so that   *)
(* every register update shows its wraparound.  A value k / 2^32 is kept   *)
(* exactly as the pair <<q, r>> with k = q * 65536 + r, 0 <= r < 65536.    *)
(* A rational is a pair <<num, den>> in lowest terms with den > 0.         *)
(***************************************************************************)
EXTENDS Integers, Sequences, FiniteSets, TLC

VARIABLES
    \* two generators built by createRandom from one seed, and their calls
    rseed, gens, outs,
    \* one generateSentence call after another on the same arguments
    input, call, pc, rng, sentence, iter, pos, result, depth,
    cands, selected, production, prodIdx, parsed, firstOut,
    \* one interpretSentence call followed by the geometry builders
    tinput, tpc, tpos, turtle, skeleton,
    branchConfig, branchGeometryData, leafConfig, leafShape,
    leafInstanceConfig, leafInstanceData,
    \* one buildTree call
    treeConfig,
    \* one useDebouncedValue hook in a mounted component
    mounted, inputValue, delay, debouncedValue, timers, held

randomVars == <<rseed, gens, outs>>
engineVars == <<input, call, pc, rng, sentence, iter, pos, result, depth,
                cands, selected, production, prodIdx, parsed, firstOut>>
geometryVars == <<branchConfig, branchGeometryData, leafConfig, leafShape,
                  leafInstanceConfig, leafInstanceData>>
turtleVars == <<tinput, tpc, tpos, turtle, skeleton, geometryVars>>
hookVars == <<mounted, inputValue, delay, debouncedValue, timers, held>>
appVars == <<treeConfig, hookVars>>
vars == <<rseed, gens, outs, input, call, pc, rng, sentence, iter, pos, result,
          depth, cands, selected, production, prodIdx, parsed, firstOut,
          tinput, tpc, tpos, turtle, skeleton,
          branchConfig, branchGeometryData, leafConfig, leafShape,
          leafInstanceConfig, leafInstanceData,
          treeConfig, mounted, inputValue, delay, debouncedValue, timers, held>>

TurtleIdle ==
    /\ tinput = <<>> /\ tpc = "idle" /\ tpos = 0 /\ turtle = <<>>
    /\ skeleton = <<>> /\ branchConfig = <<>> /\ branchGeometryData = <<>>
    /\ leafConfig = <<>> /\ leafShape = <<>>
    /\ leafInstanceConfig = <<>> /\ leafInstanceData = <<>>

HookIdle ==
    /\ mounted = FALSE /\ inputValue = 0 /\ delay = 0 /\ debouncedValue = 0
    /\ timers = {} /\ held = 0

AppIdle == treeConfig = <<>> /\ HookIdle

(***************************************************************************)
(* Bounds                                                                  *)
(***************************************************************************)
MaxCalls == 2
MaxIter == 3
MaxSymbols == 3

(***************************************************************************)
(* 32-bit arithmetic on limb pairs                                         *)
(***************************************************************************)
W16 == 65536

\* 2^k, 0 <= k <= 16
Pow2(k) ==
    <<1, 2, 4, 8, 16, 32, 64, 128, 256, 512, 1024, 2048, 4096, 8192, 16384,
      32768, 65536>>[k + 1]

\* bit i of a
bit(a, i) == (a \div Pow2(i)) % 2

\* the number whose bit i is f[bit i of a][bit i of b], over the low n bits
RECURSIVE bitwise(_, _, _, _)
bitwise(f, a, b, n) ==
    IF n = 0 THEN 0
    ELSE f[bit(a, n - 1) + 1][bit(b, n - 1) + 1] * Pow2(n - 1) + bitwise(f, a, b, n - 1)

\* ^ and | on 4-bit digits
XorDigit == [i \in 0 .. 15 |-> [j \in 0 .. 15 |-> bitwise(<<<<0, 1>>, <<1, 0>>>>, i, j, 4)]]
OrDigit == [i \in 0 .. 15 |-> [j \in 0 .. 15 |-> bitwise(<<<<0, 1>>, <<1, 1>>>>, i, j, 4)]]

\* a digit-wise operation on two 16-bit limbs
digitwise(t, a, b) ==
    t[a % 16][b % 16]
    + 16 * t[(a \div 16) % 16][(b \div 16) % 16]
    + 256 * t[(a \div 256) % 16][(b \div 256) % 16]
    + 4096 * t[(a \div 4096) % 16][(b \div 4096) % 16]

Xor16(a, b) == digitwise(XorDigit, a, b)

Or16(a, b) == digitwise(OrDigit, a, b)

\* x ^ y
xor32(x, y) == <<Xor16(x[1], y[1]), Xor16(x[2], y[2])>>

\* x | y
or32(x, y) == <<Or16(x[1], y[1]), Or16(x[2], y[2])>>

\* x << k, 0 <= k < 32
shl32(x, k) ==
    IF k < 16
    THEN <<(x[1] % Pow2(16 - k)) * Pow2(k) + (x[2] % W16) \div Pow2(16 - k),
           ((x[2] % Pow2(16 - k)) * Pow2(k))>>
    ELSE <<(x[2] % Pow2(32 - k)) * Pow2(k - 16), 0>>

\* x >>> k, 0 <= k < 32
shr32(x, k) ==
    IF k < 16
    THEN <<(x[1] % W16) \div Pow2(k),
           (x[1] % Pow2(k)) * Pow2(16 - k) + (x[2] % W16) \div Pow2(k)>>
    ELSE <<0, (x[1] % W16) \div Pow2(k - 16)>>

\* (x + y) without the `| 0`: the sum is not brought back into 32 bits
add32NoWrap(x, y) ==
    <<x[1] + y[1] + (x[2] + y[2]) \div W16, (x[2] + y[2]) % W16>>

\* (x + y) | 0
add32(x, y) ==
    <<(x[1] + y[1] + (x[2] + y[2]) \div W16) % W16, (x[2] + y[2]) % W16>>

\* the full product of two 16-bit limbs, as a word
mul16(a, b) ==
    LET p0 == a * (b % 256)
        p1 == a * (b \div 256)
    IN  add32(<<p0 \div W16, p0 % W16>>, shl32(<<p1 \div W16, p1 % W16>>, 8))

\* Math.imul(x, y): the low 32 bits of the product
imul(x, y) ==
    LET p == mul16(x[2], y[2])
    IN  <<(p[1] + mul16(x[1], y[2])[2] + mul16(x[2], y[1])[2]) % W16, p[2]>>

(***************************************************************************)
(* xmur3: seed string -> hash stream.  A string is its char codes.         *)
(***************************************************************************)
XmurInit == <<27145, 58983>>      \* 1779033703
XmurMulA == <<52382, 11601>>      \* 3432918353
XmurMulB == <<34283, 51819>>      \* 2246822507
XmurMulC == <<49842, 44597>>      \* 3266489909

\* the loop body: fold one char code into h
xmur3Mix(h, code) ==
    LET h1 == imul(xor32(h, <<0, code>>), XmurMulA)
    IN  or32(shl32(h1, 13), shr32(h1, 19))

\* h after the first n characters of str have been folded in
RECURSIVE xmur3Fold(_, _)
xmur3Fold(str, n) ==
    IF n = 0 THEN xor32(XmurInit, <<0, Len(str)>>)
    ELSE CHOOSE r \in {xmur3Mix(h, str[n]) : h \in {xmur3Fold(str, n - 1)}} : TRUE

\* the state h after the constructor loop
xmur3(str) == xmur3Fold(str, Len(str))

\* one call of the returned closure: the new h, which is also the value returned
xmur3Next(h) ==
    LET h1 == imul(xor32(h, shr32(h, 16)), XmurMulB)
        h2 == imul(xor32(h1, shr32(h1, 13)), XmurMulC)
    IN  xor32(h2, shr32(h2, 16))

(***************************************************************************)
(* sfc32                                                                   *)
(***************************************************************************)
\* x >>> 0
toUint32(x) == <<x[1] % W16, x[2] % W16>>

\* one call of the closure: the registers after it and the word t >>> 0
sfc32(s) ==
    LET a0 == toUint32(s.a)
        b0 == toUint32(s.b)
        c0 == toUint32(s.c)
        d0 == toUint32(s.d)
        t1 == add32(a0, b0)
        a1 == xor32(b0, shr32(b0, 9))
        b1 == add32(c0, shl32(c0, 3))
        c1 == or32(shl32(c0, 21), shr32(c0, 11))
        d1 == add32(d0, <<0, 1>>)
        t2 == add32(t1, d1)
        c2 == add32(c1, t2)
    IN  [state |-> [a |-> a1, b |-> b1, c |-> c2, d |-> d1], t |-> toUint32(t2)]

\* sfc32(seedHash(), seedHash(), seedHash(), seedHash()): the starting registers
seedWords(seed) ==
    LET h1 == xmur3Next(xmur3(seed))
        h2 == xmur3Next(h1)
        h3 == xmur3Next(h2)
        h4 == xmur3Next(h3)
    IN  [a |-> h1, b |-> h2, c |-> h3, d |-> h4]

\* a generator kept at module level: built by the first call, reused afterwards
createRandomOnce(seed) == IF call = 2 THEN rng ELSE seedWords(seed)

\* createRandom({seed}): a generator with registers of its own
createRandom(seed) == seedWords(seed)

\* base + k * (w / 2^32), exactly, as <<q, r>> / 2^32
scaled(base, k, w) ==
    <<base * W16 + k * w[1] + (k * w[2]) \div W16, (k * w[2]) % W16>>

\* Math.floor of a value <<q, r>> / 2^32
floorOf(v) == v[1] \div W16

\* t / 4294967296
randomOf(w) == scaled(0, 1, w)

\* min + nextRandom() * (max - min)
randomRangeOf(w, min, max) == scaled(min, max - min, w)

\* the same without the + 1 that makes max inclusive
randomIntExclusive(w, min, max) == floorOf(scaled(min, max - min, w))

\* Math.floor(min + nextRandom() * (max - min + 1))
randomIntOf(w, min, max) == floorOf(scaled(min, max - min + 1, w))

\* array[Math.floor(nextRandom() * array.length)]
randomChoiceOf(w, array) == array[floorOf(scaled(0, Len(array), w)) + 1]

\* nextRandom() < probability, probability = p[1] / p[2]
randomChanceOf(w, p) == scaled(0, p[2], w)[1] < p[1] * W16

(***************************************************************************)
(* Two generators from one seed (random.test.ts: "produces deterministic   *)
(* sequence from same seed").  outs[g] is what generator g was asked and   *)
(* what it answered; the n-th call of one generator repeats the n-th call  *)
(* of the other when that one has already made it.                         *)
(***************************************************************************)
Seeds ==
    { <<>>,                                  \* ""
      <<116, 101, 115, 116>>,                \* "test"
      <<115, 101, 101, 100, 45, 49>> }       \* "seed-1"

RangeArgs == { <<-5, 5>> }
IntArgs == { <<3, 3>>, <<0, 1>>, <<1, 6>>, <<-2, 2>> }
ChoiceArgs == { <<10, 20, 30>> }
ChanceArgs == { <<0, 1>>, <<1, 2>>, <<1, 1>> }

Gens == 1 .. 2

\* every closure built by one createRandom call shares that call's registers
sharedRegisters(g) == 1

\* the registers generator g's closures captured: its own
stateOf(g) == g

nextRandom(g) == sfc32(gens[stateOf(g)])

CanCall(g, c) ==
    /\ Len(outs[g]) < MaxCalls
    /\ \A o \in Gens :
          Len(outs[g]) < Len(outs[o]) => outs[o][Len(outs[g]) + 1].call = c

\* generator g answers call c with val: one nextRandom() draw
Emit(g, c, val) ==
    /\ gens' = [gens EXCEPT ![stateOf(g)] = nextRandom(g).state]
    /\ outs' = [outs EXCEPT ![g] = Append(@, [call |-> c, val |-> val])]
    /\ UNCHANGED <<rseed, engineVars, turtleVars, appVars>>

Random(g) ==
    LET c == [op |-> "random", args |-> <<>>]
    IN  CanCall(g, c) /\ Emit(g, c, randomOf(nextRandom(g).t))

RandomRange(g, min, max) ==
    LET c == [op |-> "randomRange", args |-> <<min, max>>]
    IN  CanCall(g, c) /\ Emit(g, c, randomRangeOf(nextRandom(g).t, min, max))

RandomInt(g, min, max) ==
    LET c == [op |-> "randomInt", args |-> <<min, max>>]
    IN  CanCall(g, c) /\ Emit(g, c, randomIntOf(nextRandom(g).t, min, max))

RandomChoice(g, array) ==
    LET c == [op |-> "randomChoice", args |-> array]
    IN  CanCall(g, c) /\ Emit(g, c, randomChoiceOf(nextRandom(g).t, array))

RandomChance(g, p) ==
    LET c == [op |-> "randomChance", args |-> p]
    IN  CanCall(g, c) /\ Emit(g, c, randomChanceOf(nextRandom(g).t, p))

EngineIdle ==
    /\ input = <<>> /\ call = 0 /\ pc = "idle" /\ rng = <<>>
    /\ sentence = <<>> /\ iter = 0 /\ pos = 0 /\ result = <<>> /\ depth = 0
    /\ cands = <<>> /\ selected = <<>> /\ production = <<>> /\ prodIdx = 0
    /\ parsed = <<>> /\ firstOut = <<>>

InitRandom ==
    /\ rseed \in Seeds
    /\ gens = [g \in Gens |-> createRandom(rseed)]
    /\ outs = [g \in Gens |-> <<>>]
    /\ EngineIdle
    /\ TurtleIdle
    /\ AppIdle

NextRandom ==
    \E g \in Gens :
        \/ Random(g)
        \/ \E a \in RangeArgs : RandomRange(g, a[1], a[2])
        \/ \E a \in IntArgs : RandomInt(g, a[1], a[2])
        \/ \E a \in ChoiceArgs : RandomChoice(g, a)
        \/ \E a \in ChanceArgs : RandomChance(g, a)

SpecRandom == InitRandom /\ [][NextRandom]_vars

(***************************************************************************)
(* The L-system engine (lsystem/engine.ts).                                *)
(*                                                                         *)
(* A string is the sequence of its characters.  odds are in tenths.  A     *)
(* numeric parameter baseValue * factor is kept exactly as the tuple       *)
(* <<n, d, q, r, v>> = (n / d) * ((q * 65536 + r) / (v * 2^32)); the       *)
(* factor 1 of variability 0 is <<65536, 0, 1>>.  An absent parameter is   *)
(* <<>>.                                                                   *)
(***************************************************************************)
OddsDen == 10

RECURSIVE GCD(_, _)
GCD(a, b) == IF b = 0 THEN a ELSE GCD(b, a % b)

Abs(x) == IF x < 0 THEN -x ELSE x

RatNorm(x) ==
    LET g == GCD(Abs(x[1]), Abs(x[2]))
        s == IF x[2] < 0 THEN -1 ELSE 1
    IN  <<s * (x[1] \div g), s * (x[2] \div g)>>

RatMul(x, y) == RatNorm(<<x[1] * y[1], x[2] * y[2]>>)

\* Math.pow(x, n) for an integer n and x # 0
RECURSIVE RatPow(_, _)
RatPow(x, n) ==
    IF n = 0 THEN <<1, 1>>
    ELSE IF n < 0 THEN RatPow(RatNorm(<<x[2], x[1]>>), -n)
    ELSE RatMul(x, RatPow(x, n - 1))

None == <<>>
One == <<W16, 0, 1>>
value(base, factor) == <<base[1], base[2], factor[1], factor[2], factor[3]>>

Sym(char, length, angle, size) ==
    [symbol |-> char, params |-> [length |-> length, angle |-> angle, size |-> size]]

Chars(sent) == [i \in 1 .. Len(sent) |-> sent[i].symbol]

StrRule(match, odds, produce) ==
    [match |-> match, odds |-> odds, kind |-> "string", produce |-> produce]

FnRule(match, odds, fn) ==
    [match |-> match, odds |-> odds, kind |-> "function", produce |-> fn]

Config(baseLength, lengthFalloff, branchAngle, variability) ==
    [baseLength |-> baseLength, lengthFalloff |-> lengthFalloff,
     branchAngle |-> branchAngle, variability |-> variability]

\* the L-systems generateSentence is called with
LSystems ==
    [ double |->        \* engine.test.ts "applies rules for specified iterations"
        [axiom |-> <<"F">>,
         rules |-> <<StrRule("F", 10, <<"F", "F">>)>>,
         config |-> Config(<<1, 1>>, <<9, 10>>, 30, <<0, 1>>)],
      stochastic |->    \* engine.test.ts "produces deterministic output for same seed"
        [axiom |-> <<"F">>,
         rules |-> <<StrRule("F", 5, <<"F", "[", "+", "F", "]">>),
                     StrRule("F", 5, <<"F", "[", "-", "F", "]">>)>>,
         config |-> Config(<<1, 1>>, <<9, 10>>, 30, <<1, 2>>)],
      branching |->     \* defaultTreeConfig's grammar with variability 0
        [axiom |-> <<"X">>,
         rules |-> <<StrRule("X", 10, <<"F", "[", "+", "X", "]", "[", "-", "X", "]", "F", "L">>),
                     StrRule("F", 10, <<"F", "F">>)>>,
         config |-> Config(<<1, 2>>, <<1, 2>>, 25, <<0, 1>>)],
      bracketed |->     \* engine.test.ts parseProduction 'F[+F]', falloff 0.5
        [axiom |-> <<"F">>,
         rules |-> <<StrRule("F", 10, <<"F", "[", "+", "F", "]">>)>>,
         config |-> Config(<<1, 1>>, <<1, 2>>, 30, <<0, 1>>)],
      weighted |->      \* odds that do not sum to 1, a rule on "[", variability 0.1
        [axiom |-> <<"F", "[", "^", "X", "]", "L">>,
         rules |-> <<StrRule("F", 20, <<"F", "/">>),
                     StrRule("[", 10, <<"F">>),
                     StrRule("F", 15, <<"&", "F">>),
                     StrRule("F", 5, <<>>),
                     StrRule("L", 10, <<"L">>),
                     FnRule("X", 10, "repeat")>>,
         config |-> Config(<<2, 1>>, <<1, 2>>, 45, <<1, 10>>)],
      degenerate |->    \* a match group whose odds sum to 0, unbalanced brackets
        [axiom |-> <<"]", "X", "F", "[", "X">>,
         rules |-> <<StrRule("X", 0, <<"F">>),
                     StrRule("X", 0, <<"L", "+">>)>>,
         config |-> Config(<<1, 1>>, <<1, 2>>, 30, <<0, 1>>)],
      pipeline |->      \* every kind of symbol, right angles, variability 0
        [axiom |-> <<"F", "[", "+", "F", "L", "]", "[", "-", "^", "&", "F", "/",
                     "\\", "L", "]", "X", "A">>,
         rules |-> <<StrRule("F", 5, <<"F">>),
                     StrRule("F", 5, <<"F", "L">>),
                     FnRule("X", 10, "repeat")>>,
         config |-> Config(<<1, 1>>, <<1, 2>>, 90, <<0, 1>>)] ]

Inputs ==
    [lsystem : DOMAIN LSystems, iterations : 0 .. MaxIter, seed : Seeds]

lsystem == LSystems[input.lsystem]

\* ---- selectRule ----------------------------------------------------------
RECURSIVE sumOdds(_, _)
sumOdds(rules, n) == IF n = 0 THEN 0 ELSE sumOdds(rules, n - 1) + rules[n].odds

\* rng.random() * total < accumulated, for a draw w / 2^32
below(w, total, accumulated) == scaled(0, total, w)[1] < accumulated * W16

\* the for loop: the first rule from index i on whose accumulated odds pass
\* the random value, the last rule when none does
RECURSIVE scanOdds(_, _, _, _, _)
scanOdds(rules, w, total, accumulated, i) ==
    IF i > Len(rules) THEN rules[Len(rules)]
    ELSE IF below(w, total, accumulated + rules[i].odds) THEN rules[i]
    ELSE scanOdds(rules, w, total, accumulated + rules[i].odds, i + 1)

\* selectRule that compares the raw draw with the accumulated odds
selectRuleUnscaled(rules, r) ==
    IF Len(rules) = 1 THEN [rule |-> rules[1], rng |-> r]
    ELSE LET draw == sfc32(r)
         IN  [rule |-> scanOdds(rules, draw.t, OddsDen, 0, 1), rng |-> draw.state]

\* selectRule without the single-rule shortcut
selectRuleAlwaysDraws(rules, r) ==
    LET draw == sfc32(r)
    IN  [rule |-> scanOdds(rules, draw.t, sumOdds(rules, Len(rules)), 0, 1),
         rng |-> draw.state]

\* selectRule({rules, rng}): the rule returned and the registers afterwards
selectRule(rules, r) ==
    IF Len(rules) = 1 THEN [rule |-> rules[1], rng |-> r]
    ELSE LET draw == sfc32(r)
         IN  [rule |-> scanOdds(rules, draw.t, sumOdds(rules, Len(rules)), 0, 1),
              rng |-> draw.state]

\* ---- createSymbol --------------------------------------------------------
rotationSymbols == {"+", "-", "^", "&", "/", "\\"}

\* getVariabilityFactor that draws whatever the variability is
variabilityFactorAlwaysDraws(config, r) ==
    LET v == config.variability
        draw == sfc32(r)
        k == scaled(v[2] - v[1], 2 * v[1], draw.t)
    IN  [factor |-> <<k[1], k[2], v[2]>>, rng |-> draw.state]

\* getVariabilityFactor(): 1 + variability * (rng.random() - 0.5) * 2
getVariabilityFactor(config, r) ==
    LET v == config.variability
    IN  IF v[1] = 0 THEN [factor |-> One, rng |-> r]
        ELSE LET draw == sfc32(r)
                 k == scaled(v[2] - v[1], 2 * v[1], draw.t)
             IN  [factor |-> <<k[1], k[2], v[2]>>, rng |-> draw.state]

\* createSymbol({char, rng, config, depth}): the symbol and the registers afterwards
createSymbol(char, r, config, d) ==
    IF char = "F"
    THEN LET f == getVariabilityFactor(config, r)
             baseLengthWithFalloff == RatMul(config.baseLength, RatPow(config.lengthFalloff, d))
         IN  [symbol |-> Sym(char, value(baseLengthWithFalloff, f.factor), None, None),
              rng |-> f.rng]
    ELSE IF char \in rotationSymbols
    THEN LET f == getVariabilityFactor(config, r)
         IN  [symbol |-> Sym(char, None, value(<<config.branchAngle, 1>>, f.factor), None),
              rng |-> f.rng]
    ELSE IF char = "L"
    THEN [symbol |-> Sym(char, None, None, value(<<1, 1>>, One)), rng |-> r]
    ELSE [symbol |-> Sym(char, None, None, None), rng |-> r]

\* a generator-function production: ({symbol}) => [symbol, symbol]
produceFunc(fn, symbol, r, config, d) ==
    [symbols |-> <<symbol, symbol>>, rng |-> r]

\* ---- applyRules / generateSentence ---------------------------------------
\* a sentence that treats no symbol as a bracket
isBracketNever(char) == FALSE

\* symbol.symbol === '[' or symbol.symbol === ']'
isBracket(char) == char \in {"[", "]"}

\* rules.filter((rule) => rule.match === symbol.symbol)
matchingRules(rules, char) ==
    SelectSeq(rules, LAMBDA rule : rule.match = char)

\* the loop test i <= iterations
loopTestInclusive(i, iterations) == i <= iterations

\* the loop test i < iterations
loopTest(i, iterations) == i < iterations

\* generateSentence: createRandom({seed}), then parseProduction of the axiom
GenerateSentence ==
    /\ pc = "start"
    /\ rng' = createRandom(input.seed)
    /\ production' = lsystem.axiom
    /\ prodIdx' = 1
    /\ parsed' = <<>>
    /\ depth' = 0
    /\ pc' = "parse"
    /\ UNCHANGED <<input, call, sentence, iter, pos, result, cands, selected, firstOut,
                   randomVars, turtleVars, appVars>>

\* parseProduction: one iteration of its for loop
CreateSymbol ==
    /\ pc = "parse"
    /\ prodIdx <= Len(production)
    /\ LET s == createSymbol(production[prodIdx], rng, lsystem.config, depth)
       IN  /\ parsed' = Append(parsed, s.symbol)
           /\ rng' = s.rng
    /\ prodIdx' = prodIdx + 1
    /\ UNCHANGED <<input, call, pc, sentence, iter, pos, result, depth, cands, selected,
                   production, firstOut, randomVars, turtleVars, appVars>>

\* parseProduction of the axiom returns: let sentence = ..., i = 0
ParseAxiomReturn ==
    /\ pc = "parse"
    /\ prodIdx > Len(production)
    /\ pos = 0
    /\ sentence' = parsed
    /\ iter' = 0
    /\ pc' = "loop"
    /\ UNCHANGED <<input, call, rng, pos, result, depth, cands, selected, production,
                   prodIdx, parsed, firstOut, randomVars, turtleVars, appVars>>

\* i < iterations holds: applyRules starts with an empty result at depth 0
ApplyRules ==
    /\ pc = "loop"
    /\ loopTest(iter, input.iterations)
    /\ result' = <<>>
    /\ depth' = 0
    /\ pos' = 1
    /\ pc' = "scan"
    /\ UNCHANGED <<input, call, rng, sentence, iter, cands, selected, production,
                   prodIdx, parsed, firstOut, randomVars, turtleVars, appVars>>

\* i < iterations fails: return sentence
Return ==
    /\ pc = "loop"
    /\ ~loopTest(iter, input.iterations)
    /\ pc' = "done"
    /\ UNCHANGED <<input, call, rng, sentence, iter, pos, result, depth, cands, selected,
                   production, prodIdx, parsed, firstOut, randomVars, turtleVars,
                   appVars>>

\* applyRules on '[' or ']': push the symbol, move the depth
ScanBracket ==
    /\ pc = "scan"
    /\ pos <= Len(sentence)
    /\ isBracket(sentence[pos].symbol)
    /\ result' = Append(result, sentence[pos])
    /\ depth' = IF sentence[pos].symbol = "[" THEN depth + 1 ELSE depth - 1
    /\ pos' = pos + 1
    /\ UNCHANGED <<input, call, pc, rng, sentence, iter, cands, selected, production,
                   prodIdx, parsed, firstOut, randomVars, turtleVars, appVars>>

\* applyRules on a symbol no rule matches: push it unchanged
ScanKeep ==
    /\ pc = "scan"
    /\ pos <= Len(sentence)
    /\ ~isBracket(sentence[pos].symbol)
    /\ matchingRules(lsystem.rules, sentence[pos].symbol) = <<>>
    /\ result' = Append(result, sentence[pos])
    /\ pos' = pos + 1
    /\ UNCHANGED <<input, call, pc, rng, sentence, iter, depth, cands, selected,
                   production, prodIdx, parsed, firstOut, randomVars, turtleVars,
                   appVars>>

\* applyRules on a symbol with matching rules: selectRule is called with them
ScanMatch ==
    /\ pc = "scan"
    /\ pos <= Len(sentence)
    /\ ~isBracket(sentence[pos].symbol)
    /\ matchingRules(lsystem.rules, sentence[pos].symbol) # <<>>
    /\ cands' = matchingRules(lsystem.rules, sentence[pos].symbol)
    /\ pc' = "select"
    /\ UNCHANGED <<input, call, rng, sentence, iter, pos, result, depth, selected,
                   production, prodIdx, parsed, firstOut, randomVars, turtleVars,
                   appVars>>

\* selectRule returns; a string production goes to parseProduction at the
\* depth of the rewritten symbol, a function production is called
SelectRule ==
    /\ pc = "select"
    /\ LET s == selectRule(cands, rng)
       IN  /\ selected' = s.rule
           /\ rng' = s.rng
           /\ IF s.rule.kind = "string"
              THEN /\ production' = s.rule.produce
                   /\ prodIdx' = 1
                   /\ parsed' = <<>>
                   /\ pc' = "parse"
              ELSE /\ pc' = "call"
                   /\ UNCHANGED <<production, prodIdx, parsed>>
    /\ UNCHANGED <<input, call, sentence, iter, pos, result, depth, cands, firstOut,
                   randomVars, turtleVars, appVars>>

\* parseProduction returns inside applyRules: result.push(...newSymbols)
PushProduction ==
    /\ pc = "parse"
    /\ prodIdx > Len(production)
    /\ pos > 0
    /\ result' = result \o parsed
    /\ pos' = pos + 1
    /\ pc' = "scan"
    /\ UNCHANGED <<input, call, rng, sentence, iter, depth, cands, selected, production,
                   prodIdx, parsed, firstOut, randomVars, turtleVars, appVars>>

\* produceFunc({symbol, rng, config, depth}) and result.push(...newSymbols)
CallProduceFunc ==
    /\ pc = "call"
    /\ LET f == produceFunc(selected.produce, sentence[pos], rng, lsystem.config, depth)
       IN  /\ result' = result \o f.symbols
           /\ rng' = f.rng
    /\ pos' = pos + 1
    /\ pc' = "scan"
    /\ UNCHANGED <<input, call, sentence, iter, depth, cands, selected, production,
                   prodIdx, parsed, firstOut, randomVars, turtleVars, appVars>>

\* applyRules returns result: sentence = applyRules(...), i++
ApplyRulesReturn ==
    /\ pc = "scan"
    /\ pos > Len(sentence)
    /\ sentence' = result
    /\ iter' = iter + 1
    /\ pos' = 0
    /\ pc' = "loop"
    /\ UNCHANGED <<input, call, rng, result, depth, cands, selected, production,
                   prodIdx, parsed, firstOut, randomVars, turtleVars, appVars>>

\* the caller keeps the first result and calls generateSentence again with
\* the same arguments (engine.test.ts lines 379-388)
CallAgain ==
    /\ pc = "done"
    /\ call = 1
    /\ firstOut' = sentence
    /\ call' = 2
    /\ pc' = "start"
    /\ sentence' = <<>> /\ iter' = 0 /\ pos' = 0 /\ result' = <<>> /\ depth' = 0
    /\ cands' = <<>> /\ production' = <<>> /\ prodIdx' = 0 /\ parsed' = <<>>
    /\ UNCHANGED <<input, rng, selected, randomVars, turtleVars, appVars>>

RandomIdle == rseed = <<>> /\ gens = <<>> /\ outs = <<>>

NoRule == StrRule("", 0, <<>>)
NoRng == [a |-> <<0, 0>>, b |-> <<0, 0>>, c |-> <<0, 0>>, d |-> <<0, 0>>]

InitEngine ==
    /\ input \in Inputs
    /\ call = 1
    /\ pc = "start"
    /\ rng = NoRng
    /\ sentence = <<>> /\ iter = 0 /\ pos = 0 /\ result = <<>> /\ depth = 0
    /\ cands = <<>> /\ selected = NoRule /\ production = <<>> /\ prodIdx = 0
    /\ parsed = <<>> /\ firstOut = <<>>
    /\ RandomIdle
    /\ TurtleIdle
    /\ AppIdle

NextEngine ==
    \/ GenerateSentence
    \/ CreateSymbol
    \/ ParseAxiomReturn
    \/ ApplyRules
    \/ Return
    \/ ScanBracket
    \/ ScanKeep
    \/ ScanMatch
    \/ SelectRule
    \/ PushProduction
    \/ CallProduceFunc
    \/ ApplyRulesReturn
    \/ CallAgain

SpecEngine == InitEngine /\ [][NextEngine]_vars

(***************************************************************************)
(* Properties of the random source                                         *)
(***************************************************************************)
\* the registers after n draws from registers s
RECURSIVE drawn(_, _)
drawn(s, n) ==
    IF n = 0 THEN s
    ELSE CHOOSE r \in {sfc32(x).state : x \in {drawn(s, n - 1)}} : TRUE

\* the registers createRandom gives each seed
SeedRegisters == [s \in Seeds |-> createRandom(s)]

InWord(x) == x[1] \in 0 .. W16 - 1 /\ x[2] \in 0 .. W16 - 1

CallsOf(g, op) == {n \in 1 .. Len(outs[g]) : outs[g][n].call.op = op}

\* C2: two generators built from the same seed answer the same n-th call with
\* the same value, whatever the calls are, and each generator's registers are
\* those of its seed advanced by exactly one draw per call it answered.
SameSeedSameSequence ==
    /\ \A n \in 1 .. MaxCalls :
          (n <= Len(outs[1]) /\ n <= Len(outs[2])) => outs[1][n] = outs[2][n]
    /\ \A g \in Gens : gens[g] = drawn(SeedRegisters[rseed], Len(outs[g]))

SameSeedWitness ==
    /\ Len(outs[1]) >= 2 /\ Len(outs[2]) >= 2
    /\ outs[1][1].call.op # outs[1][2].call.op
    /\ outs[2][2].call.op = "randomChance"

\* C3: random() is w / 2^32 for a word 0 <= w <= 2^32 - 1, so it is >= 0 and
\* < 1, and the four registers of every generator stay 32-bit words.
RandomIsUnitWord ==
    /\ \A g \in Gens : \A n \in CallsOf(g, "random") : InWord(outs[g][n].val)
    /\ \A g \in Gens :
          InWord(gens[g].a) /\ InWord(gens[g].b) /\ InWord(gens[g].c) /\ InWord(gens[g].d)

\* a random() call whose first addition a + b passed 2^32
RandomWrapWitness ==
    /\ rseed = <<115, 101, 101, 100, 45, 49>>
    /\ SeedRegisters[rseed].a[1] + SeedRegisters[rseed].b[1] >= W16
    /\ 1 \in CallsOf(1, "random")

\* words spread over the 32-bit range, one in every eighth of it
ProbeWords == {<<8192 * k, 0>> : k \in 0 .. 7}

\* C4: randomInt({min, max}) is an integer in min .. max, it is min when
\* min = max, and every value of min .. max is the answer for some draw.
RandomIntInclusive ==
    \A g \in Gens : \A n \in CallsOf(g, "randomInt") :
        LET min == outs[g][n].call.args[1]
            max == outs[g][n].call.args[2]
        IN  /\ outs[g][n].val \in min .. max
            /\ min = max => outs[g][n].val = min
            /\ \A v \in min .. max : \E w \in ProbeWords : randomIntOf(w, min, max) = v

\* one generator answered max to one randomInt call and min to another
RandomIntWitness ==
    \E g \in Gens : \E n, m \in CallsOf(g, "randomInt") :
        /\ outs[g][n].call.args[1] < outs[g][n].call.args[2]
        /\ outs[g][n].val = outs[g][n].call.args[2]
        /\ outs[g][m].call.args[1] < outs[g][m].call.args[2]
        /\ outs[g][m].val = outs[g][m].call.args[1]

(***************************************************************************)
(* Properties of the engine                                                *)
(***************************************************************************)
Variable == lsystem.config.variability[1] # 0

\* C1: a second generateSentence call with the same lsystem, iterations and
\* seed returns the sentence the first call returned: the same length, and
\* the same symbol and parameters at every position.
SameArgumentsSameSentence ==
    (pc = "done" /\ call = 2) => sentence = firstOut

SameSentenceWitness ==
    /\ pc = "done" /\ call = 2
    /\ input.lsystem = "stochastic" /\ input.iterations >= 2
    /\ Len(sentence) > 5

\* C5: selectRule with exactly one candidate returns it and leaves the
\* registers of the random source as they were.
SingleRuleNoDraw ==
    [][(pc = "select" /\ Len(cands) = 1) => (selected' = cands[1] /\ rng' = rng)]_vars

SingleRuleWitness ==
    /\ pc = "parse" /\ pos > 0 /\ prodIdx = 1
    /\ Len(cands) = 1 /\ selected = cands[1]
    /\ rng # seedWords(input.seed)

\* the candidates' odds up to and including candidate i
OddsUpTo(rules, i) == sumOdds(rules, i)

\* the candidates whose cumulative odds strictly exceed (w / 2^32) * total odds
Exceeding(rules, w) ==
    {i \in 1 .. Len(rules) :
        OddsUpTo(rules, i) * W16 > scaled(0, OddsUpTo(rules, Len(rules)), w)[1]}

FirstExceeding(rules, w) ==
    IF Exceeding(rules, w) = {} THEN rules[Len(rules)]
    ELSE rules[CHOOSE i \in Exceeding(rules, w) : \A j \in Exceeding(rules, w) : i <= j]

\* C6: selectRule with two or more candidates takes exactly one draw r0 and
\* returns the first candidate whose cumulative odds strictly exceed
\* r0 * (sum of the odds), the last candidate when none does.
WeightedSelection ==
    [][(pc = "select" /\ Len(cands) >= 2) =>
         (/\ rng' = sfc32(rng).state
          /\ selected' = FirstExceeding(cands, sfc32(rng).t))]_vars

\* three candidates whose odds sum to 4, the second one selected
WeightedSelectionWitness ==
    /\ pc = "parse" /\ pos > 0 /\ prodIdx = 1
    /\ Len(cands) >= 2 /\ sumOdds(cands, Len(cands)) # OddsDen
    /\ selected = cands[2] /\ selected # cands[1]

\* no candidate's cumulative odds exceed the random value: the last is returned
FallbackReached ==
    /\ pc = "parse" /\ pos > 0 /\ prodIdx = 1
    /\ Len(cands) >= 2 /\ sumOdds(cands, Len(cands)) = 0
    /\ selected = cands[Len(cands)]

\* C7: generateSentence returns after exactly `iterations` rewriting passes;
\* with 0 iterations it returns the parsed axiom, and F -> FF on axiom F
\* gives 2^iterations symbols, all F.
IterationsApplied ==
    pc = "done" =>
        /\ iter = input.iterations
        /\ input.iterations = 0 =>
              (sentence = parsed /\ Chars(sentence) = lsystem.axiom)
        /\ input.lsystem = "double" =>
              /\ Len(sentence) = Pow2(input.iterations)
              /\ \A i \in 1 .. Len(sentence) : sentence[i].symbol = "F"

IterationsWitness ==
    /\ pc = "done" /\ input.lsystem = "double" /\ input.iterations = 3
    /\ Len(sentence) = 8

HasRuleFor(char) ==
    \E i \in 1 .. Len(lsystem.rules) : lsystem.rules[i].match = char

\* C8: applyRules copies every [ and ] to the output unchanged, whatever the
\* rules match, and copies every symbol no rule matches unchanged, in order.
BracketsAndUnmatchedCopied ==
    [][(/\ pc = "scan" /\ pos <= Len(sentence)
        /\ (sentence[pos].symbol \in {"[", "]"} \/ ~HasRuleFor(sentence[pos].symbol)))
       => (result' = Append(result, sentence[pos]) /\ pos' = pos + 1 /\ pc' = "scan")]_vars

\* a [ was copied although a rule matches [
BracketCopiedWitness ==
    /\ pc = "scan" /\ pos > 1 /\ HasRuleFor("[")
    /\ sentence[pos - 1].symbol = "["
    /\ result # <<>> /\ result[Len(result)] = sentence[pos - 1]

\* the number of [ minus the number of ] before position i
BracketDepth(sent, i) ==
    Cardinality({j \in 1 .. i - 1 : sent[j].symbol = "["})
    - Cardinality({j \in 1 .. i - 1 : sent[j].symbol = "]"})

\* every F of the sentence was produced by the last pass from a string production
AllForwardRewritten ==
    /\ HasRuleFor("F")
    /\ \A i \in 1 .. Len(lsystem.rules) : lsystem.rules[i].kind = "string"

\* C9: with variability 0, every F a rewriting pass produces has
\* length = baseLength * lengthFalloff^d for d its own bracket depth in the
\* produced sentence.
ForwardLengthAtOwnDepth ==
    (pc = "loop" /\ iter >= 1 /\ ~Variable /\ AllForwardRewritten) =>
        \A i \in 1 .. Len(sentence) :
            sentence[i].symbol = "F" =>
                sentence[i].params.length =
                    value(RatMul(lsystem.config.baseLength,
                                 RatPow(lsystem.config.lengthFalloff,
                                        BracketDepth(sentence, i))), One)

Moves == {"F"} \cup rotationSymbols

\* C10 as stated: createSymbol takes exactly one draw for F and for a
\* rotation symbol whatever the variability, and none for any other character.
EveryMoveDraws ==
    [][(pc = "parse" /\ prodIdx <= Len(production)) =>
         IF production[prodIdx] \in Moves
         THEN rng' = sfc32(rng).state
         ELSE rng' = rng]_vars

\* C10 amended: createSymbol takes exactly one draw for F and for a rotation
\* symbol when variability is not 0, and none when variability is 0 or the
\* character is any other.
MoveDrawsWhenVariable ==
    [][(pc = "parse" /\ prodIdx <= Len(production)) =>
         IF production[prodIdx] \in Moves /\ Variable
         THEN rng' = sfc32(rng).state
         ELSE rng' = rng]_vars

\* an F and a rotation were created with variability > 0, an F with variability 0
MoveDrawsWitness ==
    /\ pc = "parse" /\ prodIdx > 2 /\ Variable
    /\ production[prodIdx - 1] \in rotationSymbols
    /\ parsed[Len(parsed)].symbol = production[prodIdx - 1]
    /\ rng # seedWords(input.seed)

(***************************************************************************)
(* The 3D turtle (tree/turtle3d.ts) with utils/math and utils/quaternion.  *)
(*                                                                         *)
(* A number is carried exactly as <<a, b, c, d, den>>, standing for        *)
(* (a + b*sqrt(2) + c*sqrt(3) + d*sqrt(6)) / den with den > 0 and the five *)
(* integers coprime: the sines and cosines of the angles used (multiples   *)
(* of 15 degrees for half angles, of 30 degrees for ring vertices) are of  *)
(* this form.  Rounding of doubles is not represented.                     *)
(***************************************************************************)
NumNorm(x) ==
    LET g == GCD(GCD(GCD(GCD(Abs(x[1]), Abs(x[2])), Abs(x[3])), Abs(x[4])), Abs(x[5]))
        s == IF x[5] < 0 THEN -1 ELSE 1
    IN  <<s * (x[1] \div g), s * (x[2] \div g), s * (x[3] \div g), s * (x[4] \div g),
          s * (x[5] \div g)>>

NumInt(n) == <<n, 0, 0, 0, 1>>
NumRat(r) == NumNorm(<<r[1], 0, 0, 0, r[2]>>)

\* the sum over the least common denominator; sums with 0 and products with
\* 0 or 1 are answered without arithmetic
NumAdd(x, y) ==
    LET g == GCD(x[5], y[5])
        m == y[5] \div g
        n == x[5] \div g
    IN  IF x = <<0, 0, 0, 0, 1>> THEN y
        ELSE IF y = <<0, 0, 0, 0, 1>> THEN x
        ELSE NumNorm(<<x[1] * m + y[1] * n, x[2] * m + y[2] * n,
                       x[3] * m + y[3] * n, x[4] * m + y[4] * n, x[5] * m>>)

NumNeg(x) == <<-x[1], -x[2], -x[3], -x[4], x[5]>>

NumSub(x, y) == NumAdd(x, NumNeg(y))

NumMul(x, y) ==
    IF x = <<0, 0, 0, 0, 1>> \/ y = <<0, 0, 0, 0, 1>> THEN <<0, 0, 0, 0, 1>>
    ELSE IF x = <<1, 0, 0, 0, 1>> THEN y
    ELSE IF y = <<1, 0, 0, 0, 1>> THEN x
    ELSE NumNorm(<<x[1] * y[1] + 2 * x[2] * y[2] + 3 * x[3] * y[3] + 6 * x[4] * y[4],
                   x[1] * y[2] + x[2] * y[1] + 3 * (x[3] * y[4] + x[4] * y[3]),
                   x[1] * y[3] + x[3] * y[1] + 2 * (x[2] * y[4] + x[4] * y[2]),
                   x[1] * y[4] + x[4] * y[1] + x[2] * y[3] + x[3] * y[2],
                   x[5] * y[5]>>)

\* ---- utils/math ----------------------------------------------------------
vec3(x, y, z) == [x |-> x, y |-> y, z |-> z]

addVec3(a, b) == vec3(NumAdd(a.x, b.x), NumAdd(a.y, b.y), NumAdd(a.z, b.z))

scaleVec3(v, s) == vec3(NumMul(v.x, s), NumMul(v.y, s), NumMul(v.z, s))

crossVec3(a, b) ==
    vec3(NumSub(NumMul(a.y, b.z), NumMul(a.z, b.y)),
         NumSub(NumMul(a.z, b.x), NumMul(a.x, b.z)),
         NumSub(NumMul(a.x, b.y), NumMul(a.y, b.x)))

\* x / y for a rational y other than 0
NumDiv(x, y) == NumMul(x, NumNorm(<<y[5], 0, 0, 0, y[1]>>))

\* the integer square root
RECURSIVE isqrt(_)
isqrt(n) ==
    IF n < 2 THEN n
    ELSE LET s == 2 * isqrt(n \div 4)
         IN  IF (s + 1) * (s + 1) <= n THEN s + 1 ELSE s

\* Math.sqrt of the square of a rational; no other number is given to it here
sqrt(x) ==
    <<CHOOSE k \in {isqrt(x[1])} : k * k = x[1] /\ x[2] = 0 /\ x[3] = 0 /\ x[4] = 0,
      0, 0, 0, CHOOSE k \in {isqrt(x[5])} : k * k = x[5]>>

lengthVec3(v) ==
    sqrt(NumAdd(NumAdd(NumMul(v.x, v.x), NumMul(v.y, v.y)), NumMul(v.z, v.z)))

normalizeVec3(v) ==
    LET len == lengthVec3(v)
    IN  IF len = NumInt(0) THEN vec3(NumInt(0), NumInt(0), NumInt(0))
        ELSE vec3(NumDiv(v.x, len), NumDiv(v.y, len), NumDiv(v.z, len))

\* ---- utils/quaternion ----------------------------------------------------
quat(x, y, z, w) == [x |-> x, y |-> y, z |-> z, w |-> w]

identityQuat == quat(NumInt(0), NumInt(0), NumInt(0), NumInt(1))

multiplyQuat(a, b) ==
    quat(NumSub(NumAdd(NumAdd(NumMul(a.w, b.x), NumMul(a.x, b.w)), NumMul(a.y, b.z)),
                NumMul(a.z, b.y)),
         NumAdd(NumAdd(NumSub(NumMul(a.w, b.y), NumMul(a.x, b.z)), NumMul(a.y, b.w)),
                NumMul(a.z, b.x)),
         NumAdd(NumSub(NumAdd(NumMul(a.w, b.z), NumMul(a.x, b.y)), NumMul(a.y, b.x)),
                NumMul(a.z, b.w)),
         NumSub(NumSub(NumSub(NumMul(a.w, b.w), NumMul(a.x, b.x)), NumMul(a.y, b.y)),
                NumMul(a.z, b.z)))

\* an angle in radians is the rational multiple <<n, d>> of pi it equals;
\* Math.sin and Math.cos of the multiples of pi / 12 up to pi / 2
SinTable ==
    [k \in 0 .. 6 |->
        CASE k = 0 -> <<0, 0, 0, 0, 1>>
          [] k = 1 -> <<0, -1, 0, 1, 4>>
          [] k = 2 -> <<1, 0, 0, 0, 2>>
          [] k = 3 -> <<0, 1, 0, 0, 2>>
          [] k = 4 -> <<0, 0, 1, 0, 2>>
          [] k = 5 -> <<0, 1, 0, 1, 4>>
          [] k = 6 -> <<1, 0, 0, 0, 1>>]

\* the angle as a count of pi / 12 steps
Twelfths(angle) == (12 * angle[1]) \div angle[2]

RECURSIVE sin(_)
sin(angle) ==
    LET k == Twelfths(angle)
    IN  IF k < 0 THEN NumNeg(sin(<<-angle[1], angle[2]>>))
        ELSE IF k >= 24 THEN sin(<<k - 24, 12>>)
        ELSE IF k > 12 THEN NumNeg(sin(<<k - 12, 12>>))
        ELSE IF k > 6 THEN SinTable[12 - k]
        ELSE SinTable[k]

cos(angle) == sin(<<6 - Twelfths(angle), 12>>)

halfOf(angle) == RatNorm(<<angle[1], 2 * angle[2]>>)

quatFromAxisAngle(axis, angle) ==
    LET halfAngle == halfOf(angle)
        sinHalfAngle == sin(halfAngle)
        cosHalfAngle == cos(halfAngle)
    IN  quat(NumMul(axis.x, sinHalfAngle), NumMul(axis.y, sinHalfAngle),
             NumMul(axis.z, sinHalfAngle), cosHalfAngle)

rotateVec3ByQuat(v, q) ==
    LET qv == vec3(q.x, q.y, q.z)
        cross1 == crossVec3(qv, v)
        cross2 == crossVec3(qv, cross1)
        term1 == scaleVec3(cross1, NumMul(NumInt(2), q.w))
        term2 == scaleVec3(cross2, NumInt(2))
    IN  addVec3(addVec3(v, term1), term2)

\* ---- tree/turtle3d.ts ----------------------------------------------------
\* symbolParams.x ?? dflt
orDefault(param, dflt) == IF param = None THEN dflt ELSE param

degreesToRadians(degrees) == RatNorm(<<degrees[1], 180 * degrees[2]>>)

getForward(orientation) ==
    rotateVec3ByQuat(vec3(NumInt(0), NumInt(1), NumInt(0)), orientation)

getRight(orientation) ==
    rotateVec3ByQuat(vec3(NumInt(1), NumInt(0), NumInt(0)), orientation)

getUp(orientation) ==
    rotateVec3ByQuat(vec3(NumInt(0), NumInt(0), NumInt(1)), orientation)

TurtleState(position, orientation, radius, d, currentNodeId) ==
    [position |-> position, orientation |-> orientation, radius |-> radius,
     depth |-> d, currentNodeId |-> currentNodeId]

cloneTurtleState(state) ==
    TurtleState(vec3(state.position.x, state.position.y, state.position.z),
                quat(state.orientation.x, state.orientation.y, state.orientation.z,
                     state.orientation.w),
                state.radius, state.depth, state.currentNodeId)

\* a node that names itself as its parent
createNodeOwnParent(id, position, orientation, radius, parentId, d) ==
    [id |-> id, position |-> position, orientation |-> orientation,
     radius |-> radius, parentId |-> IF parentId = <<>> THEN <<>> ELSE <<id>>,
     depth |-> d, isTerminal |-> FALSE, isBranchPoint |-> FALSE]

\* parentId is <<>> for null and <<id>> for a node id
createNode(id, position, orientation, radius, parentId, d) ==
    [id |-> id, position |-> position, orientation |-> orientation,
     radius |-> radius, parentId |-> parentId, depth |-> d,
     isTerminal |-> FALSE, isBranchPoint |-> FALSE]

\* a segment with its two ends exchanged
createSegmentReversed(startNode, endNode, length) ==
    [startNodeId |-> endNode.id, endNodeId |-> startNode.id,
     startRadius |-> endNode.radius, endRadius |-> startNode.radius,
     length |-> length]

\* a segment that copies the start radius to both ends
createSegmentOneRadius(startNode, endNode, length) ==
    [startNodeId |-> startNode.id, endNodeId |-> endNode.id,
     startRadius |-> startNode.radius, endRadius |-> startNode.radius,
     length |-> length]

createSegment(startNode, endNode, length) ==
    [startNodeId |-> startNode.id, endNodeId |-> endNode.id,
     startRadius |-> startNode.radius, endRadius |-> endNode.radius,
     length |-> length]

\* nodes.find((n) => n.id === id): the index of the first node with that id
findNode(nodes, id) ==
    LET hits == {i \in 1 .. Len(nodes) : nodes[i].id = id}
    IN  CHOOSE i \in hits : \A j \in hits : i <= j

\* childCounts.get(id) ?? 0
countOf(childCounts, id) == IF id \in DOMAIN childCounts THEN childCounts[id] ELSE 0

\* interpretSentence up to the symbol loop
startTurtle(config) ==
    LET initialState == TurtleState(vec3(NumInt(0), NumInt(0), NumInt(0)), identityQuat,
                                    config.baseRadius, 0, 0)
        rootNode == createNode(0, initialState.position, initialState.orientation,
                               initialState.radius, <<>>, 0)
    IN  [nodes |-> <<rootNode>>, segments |-> <<>>, leaves |-> <<>>,
         childCounts |-> <<>>, nextNodeId |-> 1, stateStack |-> <<>>,
         state |-> cloneTurtleState(initialState)]

\* a radius taken from the radius of the previous node
radiusFromPrevious(config, state) == RatMul(state.radius, config.radiusFalloff)

\* radius = baseRadius * radiusFalloff^depth
radiusAtDepth(config, state) ==
    RatMul(config.baseRadius, RatPow(config.radiusFalloff, state.depth))

\* case 'F'
caseForward(t, sym, config) ==
    LET state == t.state
        length == orDefault(sym.params.length, <<1, 1>>)
        forward == getForward(state.orientation)
        movement == scaleVec3(forward, NumRat(length))
        newPosition == addVec3(state.position, movement)
        newRadius == radiusAtDepth(config, state)
        newNode == createNode(t.nextNodeId, newPosition, state.orientation, newRadius,
                              <<state.currentNodeId>>, state.depth)
        nodes == Append(t.nodes, newNode)
        currentNode == nodes[findNode(nodes, state.currentNodeId)]
        segment == createSegment(currentNode, newNode, length)
        currentCount == countOf(t.childCounts, state.currentNodeId)
    IN  [t EXCEPT !.nodes = nodes,
                  !.nextNodeId = t.nextNodeId + 1,
                  !.segments = Append(t.segments, segment),
                  !.childCounts =
                      [k \in DOMAIN t.childCounts \cup {state.currentNodeId} |->
                          IF k = state.currentNodeId THEN currentCount + 1
                          ELSE t.childCounts[k]],
                  !.state = [state EXCEPT !.position = newPosition,
                                          !.radius = newRadius,
                                          !.currentNodeId = newNode.id]]

\* the six rotation cases: sign is 1 for + ^ / and -1 for - & \
caseRotate(t, sym, axis, sign) ==
    LET angleDegrees == orDefault(sym.params.angle, <<30, 1>>)
        angleRadians == degreesToRadians(<<sign * angleDegrees[1], angleDegrees[2]>>)
        rotation == quatFromAxisAngle(axis, angleRadians)
    IN  [t EXCEPT !.state.orientation = multiplyQuat(t.state.orientation, rotation)]

\* a push that saves the state after raising the depth
casePushAfterIncrement(t) ==
    LET raised == [t.state EXCEPT !.depth = t.state.depth + 1]
    IN  [t EXCEPT !.stateStack = Append(t.stateStack, cloneTurtleState(raised)),
                  !.state = raised]

\* a push that leaves the depth as it is
casePushKeepsDepth(t) ==
    [t EXCEPT !.stateStack = Append(t.stateStack, cloneTurtleState(t.state))]

\* case '['
casePush(t) ==
    [t EXCEPT !.stateStack = Append(t.stateStack, cloneTurtleState(t.state)),
              !.state.depth = t.state.depth + 1]

\* a pop that lowers the depth when there is nothing to restore
casePopLowersDepth(t) ==
    IF t.stateStack # <<>>
    THEN [t EXCEPT !.state = t.stateStack[Len(t.stateStack)],
                   !.stateStack = SubSeq(t.stateStack, 1, Len(t.stateStack) - 1)]
    ELSE [t EXCEPT !.state.depth = t.state.depth - 1]

\* case ']'
casePop(t) ==
    IF t.stateStack # <<>>
    THEN [t EXCEPT !.state = t.stateStack[Len(t.stateStack)],
                   !.stateStack = SubSeq(t.stateStack, 1, Len(t.stateStack) - 1)]
    ELSE t

\* a leaf that ignores the size parameter
caseLeafUnitSize(t, sym) ==
    LET leaf == [position |-> t.state.position, orientation |-> t.state.orientation,
                 size |-> <<1, 1>>]
    IN  [t EXCEPT !.leaves = Append(t.leaves, leaf)]

\* case 'L'
caseLeaf(t, sym) ==
    LET leafSize == orDefault(sym.params.size, <<1, 1>>)
        leaf == [position |-> vec3(t.state.position.x, t.state.position.y,
                                   t.state.position.z),
                 orientation |-> quat(t.state.orientation.x, t.state.orientation.y,
                                      t.state.orientation.z, t.state.orientation.w),
                 size |-> leafSize]
    IN  [t EXCEPT !.leaves = Append(t.leaves, leaf)]

\* an unknown symbol that opens a nesting level
defaultRaisesDepth(t) == [t EXCEPT !.state.depth = t.state.depth + 1]

\* default: unknown symbols (including X) are ignored
caseDefault(t) == t

\* the switch of the symbol loop
interpretSymbol(t, sym, config) ==
    CASE sym.symbol = "F" -> caseForward(t, sym, config)
      [] sym.symbol = "+" -> caseRotate(t, sym, getUp(t.state.orientation), 1)
      [] sym.symbol = "-" -> caseRotate(t, sym, getUp(t.state.orientation), -1)
      [] sym.symbol = "^" -> caseRotate(t, sym, getRight(t.state.orientation), 1)
      [] sym.symbol = "&" -> caseRotate(t, sym, getRight(t.state.orientation), -1)
      [] sym.symbol = "/" -> caseRotate(t, sym, getForward(t.state.orientation), 1)
      [] sym.symbol = "\\" -> caseRotate(t, sym, getForward(t.state.orientation), -1)
      [] sym.symbol = "[" -> casePush(t)
      [] sym.symbol = "]" -> casePop(t)
      [] sym.symbol = "L" -> caseLeaf(t, sym)
      [] OTHER -> caseDefault(t)

\* a node with any child counts as a branch point
hasChild(count) == count > 0

\* if (count > 1)
moreThanOneChild(count) == count > 1

\* post-processing: branch points, terminal nodes, and the returned skeleton
markNodes(t) ==
    LET branch == {k \in DOMAIN t.childCounts : moreThanOneChild(t.childCounts[k])}
        nodesWithOutgoingSegments == {t.segments[i].startNodeId : i \in 1 .. Len(t.segments)}
        marked == [i \in 1 .. Len(t.nodes) |->
                      [t.nodes[i] EXCEPT
                          !.isBranchPoint =
                              \E k \in branch :
                                  /\ \E j \in 1 .. Len(t.nodes) : t.nodes[j].id = k
                                  /\ findNode(t.nodes, k) = i,
                          !.isTerminal = t.nodes[i].id \notin nodesWithOutgoingSegments]]
    IN  [nodes |-> marked, segments |-> t.segments, leaves |-> t.leaves]

\* ---- tree/uvMapping ------------------------------------------------------
calculateBranchUV(ringIndex, vertexIndex, totalRings, radialSegments, segmentLength, textureScale, vOffset) ==
    LET u == NumRat(RatNorm(<<vertexIndex, radialSegments>>))
        ringProgress == IF totalRings > 1
                        THEN NumRat(RatNorm(<<ringIndex, totalRings - 1>>))
                        ELSE NumInt(0)
        v == NumAdd(vOffset, NumMul(NumMul(ringProgress, NumRat(segmentLength)),
                                    NumRat(textureScale)))
    IN  [u |-> u, v |-> v]

\* segments[0] .. segments[segmentIndex - 1] are segments[1 .. segmentIndex] here
RECURSIVE calculateVOffset(_, _, _)
calculateVOffset(segmentIndex, segments, textureScale) ==
    IF segmentIndex = 0 THEN NumInt(0)
    ELSE NumAdd(calculateVOffset(segmentIndex - 1, segments, textureScale),
                NumMul(NumRat(segments[segmentIndex].length), NumRat(textureScale)))

\* ---- tree/branchGeometry.ts ----------------------------------------------
\* the body of the loop of generateRing once the vertex is rotated: what it
\* pushes, before the positions and normals of the vertices after it
ringVertex(center, rotatedPos, rest) ==
    CHOOSE ring \in
        { [positions |-> <<worldPos.x, worldPos.y, worldPos.z>> \o rest.positions,
           normals |-> <<normal.x, normal.y, normal.z>> \o rest.normals] :
              worldPos \in {addVec3(center, rotatedPos)},
              normal \in {normalizeVec3(rotatedPos)} } : TRUE

\* the loop of generateRing from vertex i on; CHOOSE from a one-element set
\* computes a value once
RECURSIVE ringVertices(_, _, _, _, _)
ringVertices(center, orientation, radius, segments, i) ==
    IF i >= segments THEN [positions |-> <<>>, normals |-> <<>>]
    ELSE
        LET angle == RatNorm(<<i * 2, segments>>)
            localPos == vec3(NumMul(cos(angle), NumRat(radius)), NumInt(0),
                             NumMul(sin(angle), NumRat(radius)))
        IN  CHOOSE ring \in
                { ringVertex(center, rotatedPos, rest) :
                      rotatedPos \in {rotateVec3ByQuat(localPos, orientation)},
                      rest \in {ringVertices(center, orientation, radius, segments,
                                             i + 1)} } : TRUE

\* a ring whose loop starts at vertex 1
generateRingFromOne(center, orientation, radius, segments) ==
    ringVertices(center, orientation, radius, segments, 1)

generateRing(center, orientation, radius, segments) ==
    ringVertices(center, orientation, radius, segments, 0)

\* the next vertex taken without wrapping around to the start of the ring
connectRingsNoWrap(ring1Offset, ring2Offset, segments) ==
    [k \in 1 .. 6 * segments |->
        LET i == (k - 1) \div 6
        IN  CASE (k - 1) % 6 = 0 -> ring1Offset + i
              [] (k - 1) % 6 = 1 -> ring2Offset + i
              [] (k - 1) % 6 = 2 -> ring1Offset + i + 1
              [] (k - 1) % 6 = 3 -> ring1Offset + i + 1
              [] (k - 1) % 6 = 4 -> ring2Offset + i
              [] (k - 1) % 6 = 5 -> ring2Offset + i + 1]

\* the second triangle of each quad wound the other way
connectRingsFlipped(ring1Offset, ring2Offset, segments) ==
    [k \in 1 .. 6 * segments |->
        LET i == (k - 1) \div 6
        IN  CASE (k - 1) % 6 = 0 -> ring1Offset + i
              [] (k - 1) % 6 = 1 -> ring2Offset + i
              [] (k - 1) % 6 = 2 -> ring1Offset + ((i + 1) % segments)
              [] (k - 1) % 6 = 3 -> ring1Offset + ((i + 1) % segments)
              [] (k - 1) % 6 = 4 -> ring2Offset + ((i + 1) % segments)
              [] (k - 1) % 6 = 5 -> ring2Offset + i]

connectRings(ring1Offset, ring2Offset, segments) ==
    [k \in 1 .. 6 * segments |->
        LET i == (k - 1) \div 6
            r1Current == ring1Offset + i
            r2Current == ring2Offset + i
            r1Next == ring1Offset + ((i + 1) % segments)
            r2Next == ring2Offset + ((i + 1) % segments)
        IN  CASE (k - 1) % 6 = 0 -> r1Current
              [] (k - 1) % 6 = 1 -> r2Current
              [] (k - 1) % 6 = 2 -> r1Next
              [] (k - 1) % 6 = 3 -> r1Next
              [] (k - 1) % 6 = 4 -> r2Current
              [] (k - 1) % 6 = 5 -> r2Next]

\* the body of the forEach of buildBranchGeometry for segment number
\* segmentIndex, given the accumulators so far and the two nodes it found
segmentGeometry(acc, segment, segmentIndex, startNode, endNode, skel, config) ==
    LET radialSegments == config.radialSegments
        textureRepeatY == config.textureRepeatY
        ring1Offset == acc.vertexOffset
        ring2Offset == acc.vertexOffset + radialSegments
        totalRings == 2
    IN  CHOOSE next \in
            { [allPositions |-> acc.allPositions \o startRing.positions
                                    \o endRing.positions,
               allNormals |-> acc.allNormals \o startRing.normals \o endRing.normals,
               allUvs |-> acc.allUvs
                   \o [k \in 1 .. 2 * radialSegments |->
                          LET uv == calculateBranchUV(0, (k - 1) \div 2, totalRings,
                                                      radialSegments, segment.length,
                                                      textureRepeatY, vOffset)
                          IN  IF (k - 1) % 2 = 0 THEN uv.u ELSE uv.v]
                   \o [k \in 1 .. 2 * radialSegments |->
                          LET uv == calculateBranchUV(1, (k - 1) \div 2, totalRings,
                                                      radialSegments, segment.length,
                                                      textureRepeatY, vOffset)
                          IN  IF (k - 1) % 2 = 0 THEN uv.u ELSE uv.v],
               allIndices |-> acc.allIndices
                                  \o connectRings(ring1Offset, ring2Offset,
                                                  radialSegments),
               vertexOffset |-> acc.vertexOffset + radialSegments * 2] :
                  vOffset \in {calculateVOffset(segmentIndex, skel.segments,
                                                textureRepeatY)},
                  startRing \in {generateRing(startNode.position, startNode.orientation,
                                              segment.startRadius, radialSegments)},
                  endRing \in {generateRing(endNode.position, endNode.orientation,
                                            segment.endRadius, radialSegments)} } : TRUE

\* the accumulators of buildBranchGeometry after the first count segments
RECURSIVE forEachSegment(_, _, _)
forEachSegment(skel, config, count) ==
    IF count = 0
    THEN [allPositions |-> <<>>, allNormals |-> <<>>, allUvs |-> <<>>,
          allIndices |-> <<>>, vertexOffset |-> 0]
    ELSE
        CHOOSE next \in
            { segmentGeometry(acc, segment, count - 1, startNode, endNode, skel, config) :
                  acc \in {forEachSegment(skel, config, count - 1)},
                  segment \in {skel.segments[count]},
                  startNode \in {skel.nodes[findNode(skel.nodes,
                                                     skel.segments[count].startNodeId)]},
                  endNode \in {skel.nodes[findNode(skel.nodes,
                                                   skel.segments[count].endNodeId)]} } :
                TRUE

\* the typed arrays keep the lengths of the accumulators; the rounding of
\* their elements to 32-bit floats is not represented
buildBranchGeometry(skel, config) ==
    CHOOSE data \in
        { [positions |-> acc.allPositions, normals |-> acc.allNormals,
           uvs |-> acc.allUvs, indices |-> acc.allIndices] :
              acc \in {forEachSegment(skel, config, Len(skel.segments))} } : TRUE

\* ---- tree/leafGeometry (createLeafShape) ---------------------------------
\* element k of a typed array is element k + 1 here; every element of the
\* allocated arrays is written once by the loops
createLeafShape(config) ==
    LET width == NumRat(config.width)
        length == NumRat(config.length)
        curvature == NumRat(config.curvature)
        segments == config.segments
        rowCount == segments + 1
        vertexCount == rowCount * 2
        triangleCount == segments * 2
        halfWidth == NumDiv(width, NumInt(2))
        tOf(row) == NumRat(RatNorm(<<row, segments>>))
        y(row) == NumMul(tOf(row), length)
        z(row) == NumMul(NumMul(NumMul(curvature, tOf(row)), tOf(row)), length)
        normalOf(row) ==
            LET dzdy == NumMul(NumMul(NumInt(2), curvature), tOf(row))
                tangentY == normalizeVec3(vec3(NumInt(0), NumInt(1), dzdy))
                tangentX == vec3(NumInt(1), NumInt(0), NumInt(0))
            IN  normalizeVec3(crossVec3(tangentX, tangentY))
    IN  [positions |->
             [k \in 1 .. vertexCount * 3 |->
                 LET vertex == (k - 1) \div 3
                     row == vertex \div 2
                 IN  CASE (k - 1) % 3 = 0 ->
                              IF vertex % 2 = 0 THEN NumNeg(halfWidth) ELSE halfWidth
                       [] (k - 1) % 3 = 1 -> y(row)
                       [] (k - 1) % 3 = 2 -> z(row)],
         normals |->
             [k \in 1 .. vertexCount * 3 |->
                 LET normal == normalOf(((k - 1) \div 3) \div 2)
                 IN  CASE (k - 1) % 3 = 0 -> normal.x
                       [] (k - 1) % 3 = 1 -> normal.y
                       [] (k - 1) % 3 = 2 -> normal.z],
         uvs |->
             [k \in 1 .. vertexCount * 2 |->
                 LET vertex == (k - 1) \div 2
                 IN  IF (k - 1) % 2 = 0 THEN NumInt(vertex % 2)
                     ELSE tOf(vertex \div 2)],
         indices |->
             [k \in 1 .. triangleCount * 3 |->
                 LET seg == (k - 1) \div 6
                     bottomLeft == seg * 2
                     bottomRight == seg * 2 + 1
                     topLeft == (seg + 1) * 2
                     topRight == (seg + 1) * 2 + 1
                 IN  CASE (k - 1) % 6 = 0 -> bottomLeft
                       [] (k - 1) % 6 = 1 -> topLeft
                       [] (k - 1) % 6 = 2 -> topRight
                       [] (k - 1) % 6 = 3 -> bottomLeft
                       [] (k - 1) % 6 = 4 -> topRight
                       [] (k - 1) % 6 = 5 -> bottomRight]]

\* ---- tree/leafGeometry (buildLeafInstances) -------------------------------
\* the next n draws of a generator with registers s, each with the registers it
\* leaves behind
RECURSIVE draws(_, _)
draws(s, n) ==
    IF n = 0 THEN <<>>
    ELSE CHOOSE q \in {Append(p, sfc32(IF p = <<>> THEN s ELSE p[Len(p)].state)) :
                          p \in {draws(s, n - 1)}} : TRUE

\* base + (rng.random() * 2 - 1) * variation for rationals base and variation
\* and the drawn word w, exactly: <<q, r, den>> is (q * 2^16 + r) / 2^32 / den
plusVariation(base, w, variation) ==
    LET v == scaled(base[1] * variation[2] - base[2] * variation[1],
                    2 * base[2] * variation[1], w)
    IN  <<v[1], v[2], base[2] * variation[2]>>

\* a colour channel stored as computed, without the clamp
unclamped(v) == v

\* Math.max(0, Math.min(1, v))
clamp01(v) ==
    IF v[1] >= v[3] * W16 THEN <<v[3] * W16, 0, v[3]>>
    ELSE IF v[1] < 0 THEN <<0, 0, v[3]>>
    ELSE v

\* the sixteen matrix entries and three colour entries of one leaf from its
\* seven draws d.  The nine rotation entries are kept as the terms they are
\* computed from: which entry, the orientation and the scale.
leafInstance(leaf, config, d) ==
    LET sizeMult == plusVariation(<<1, 1>>, d[1].t, config.sizeVariation)
        scatterX == plusVariation(<<0, 1>>, d[2].t, config.rotationScatter)
        scatterY == plusVariation(<<0, 1>>, d[3].t, config.rotationScatter)
        scatterZ == plusVariation(<<0, 1>>, d[4].t, config.rotationScatter)
        r == clamp01(plusVariation(config.baseColor.r, d[5].t, config.colorVariation))
        g == clamp01(plusVariation(config.baseColor.g, d[6].t, config.colorVariation))
        b == clamp01(plusVariation(config.baseColor.b, d[7].t, config.colorVariation))
        orientation ==
            IF config.rotationScatter[1] > 0
            THEN [base |-> leaf.orientation, scatter |-> <<scatterX, scatterY, scatterZ>>]
            ELSE [base |-> leaf.orientation]
        scale == [size |-> leaf.size, sizeMult |-> sizeMult]
        rot(entry) == [entry |-> entry, q |-> orientation, scale |-> scale]
    IN  [matrix |-> << rot("r00"), rot("r10"), rot("r20"), NumInt(0),
                       rot("r01"), rot("r11"), rot("r21"), NumInt(0),
                       rot("r02"), rot("r12"), rot("r22"), NumInt(0),
                       leaf.position.x, leaf.position.y, leaf.position.z, NumInt(1) >>,
         color |-> <<r, g, b>>]

\* one pass of the loop over the leaves: seven draws, then the entries of leaf i
leafLoopBody(acc, leaf, config) ==
    CHOOSE next \in
        { [matrices |-> acc.matrices \o leafInstance(leaf, config, d).matrix,
           colors |-> acc.colors \o leafInstance(leaf, config, d).color,
           rng |-> d[7].state] : d \in {draws(acc.rng, 7)} } : TRUE

RECURSIVE leafLoop(_, _, _)
leafLoop(leaves, config, i) ==
    IF i = 0
    THEN [matrices |-> <<>>, colors |-> <<>>, rng |-> createRandom(config.seed)]
    ELSE CHOOSE next \in {leafLoopBody(acc, leaves[i], config) :
                             acc \in {leafLoop(leaves, config, i - 1)}} : TRUE

buildLeafInstances(leaves, config) ==
    LET count == Len(leaves)
    IN  IF count = 0
        THEN [matrices |-> <<>>, colors |-> <<>>, count |-> 0]
        ELSE CHOOSE data \in
                 { [matrices |-> done.matrices, colors |-> done.colors,
                    count |-> count] : done \in {leafLoop(leaves, config, count)} } : TRUE


(***************************************************************************)
(* interpretSentence as a state machine: one action per case of the symbol *)
(* loop.  Numeric symbol parameters and the configuration are rationals    *)
(* <<num, den>>; an absent parameter is None.                              *)
(***************************************************************************)
Fwd(length) == Sym("F", length, None, None)
Rot(char, angle) == Sym(char, None, angle, None)
Leaf(size) == Sym("L", None, None, size)
Bare(char) == Sym(char, None, None, None)

Alphabet ==
    { Fwd(None), Fwd(<<2, 1>>), Rot("+", <<90, 1>>), Rot("^", <<90, 1>>),
      Bare("["), Bare("]"), Leaf(None), Bare("X") }

\* every sentence over Alphabet of at most MaxSymbols symbols
ShortSentences == UNION {[1 .. n -> Alphabet] : n \in 0 .. MaxSymbols}

LongSentences ==
    { \* F[+F][-F]
      <<Fwd(<<1, 1>>), Bare("["), Rot("+", <<90, 1>>), Fwd(<<1, 1>>), Bare("]"),
        Bare("["), Rot("-", <<90, 1>>), Fwd(<<1, 1>>), Bare("]")>>,
      \* F[+F[^F]F]F
      <<Fwd(None), Bare("["), Rot("+", <<90, 1>>), Fwd(None), Bare("["),
        Rot("^", <<90, 1>>), Fwd(<<1, 2>>), Bare("]"), Fwd(None), Bare("]"),
        Fwd(<<3, 1>>)>>,
      \* every rotation, from orientations other than the identity
      <<Rot("^", <<90, 1>>), Rot("+", <<90, 1>>), Fwd(None), Rot("/", <<90, 1>>),
        Leaf(<<2, 1>>), Rot("&", <<180, 1>>), Rot("-", <<90, 1>>),
        Rot("\\", <<90, 1>>), Fwd(None)>>,
      \* default angles
      <<Rot("+", None), Fwd(None), Rot("^", None), Fwd(None), Leaf(None)>>,
      <<Rot("&", None), Rot("/", <<60, 1>>), Fwd(None)>>,
      \* unbalanced brackets
      <<Bare("]"), Fwd(None), Bare("["), Fwd(None), Bare("]"), Bare("]"),
        Fwd(None), Bare("["), Bare("[")>>,
      \* symbols the turtle does not know
      <<Bare("X"), Fwd(None), Bare("A"), Bare("["), Bare("X"), Rot("+", <<90, 1>>),
        Leaf(None), Bare("]"), Bare("!"), Fwd(None)>>,
      \* a negative length
      <<Fwd(None), Fwd(<<-1, 2>>), Leaf(None)>> }

TurtleConfigs ==
    { [baseRadius |-> <<1, 1>>, radiusFalloff |-> <<7, 10>>],
      [baseRadius |-> <<2, 1>>, radiusFalloff |-> <<1, 2>>] }

TurtleInputs == [sentence : ShortSentences \cup LongSentences, config : TurtleConfigs]

sym == tinput.sentence[tpos + 1]

AtSymbol(chars) ==
    /\ tpc = "loop"
    /\ tpos < Len(tinput.sentence)
    /\ sym.symbol \in chars

Advance(t) ==
    /\ turtle' = t
    /\ tpos' = tpos + 1
    /\ UNCHANGED <<tinput, tpc, skeleton, geometryVars, randomVars, engineVars, appVars>>

InterpretSentence ==
    /\ tpc = "start"
    /\ turtle' = startTurtle(tinput.config)
    /\ tpos' = 0
    /\ tpc' = "loop"
    /\ UNCHANGED <<tinput, skeleton, geometryVars, randomVars, engineVars, appVars>>

Forward == AtSymbol({"F"}) /\ Advance(caseForward(turtle, sym, tinput.config))

YawLeft ==
    AtSymbol({"+"}) /\ Advance(caseRotate(turtle, sym, getUp(turtle.state.orientation), 1))

YawRight ==
    AtSymbol({"-"}) /\ Advance(caseRotate(turtle, sym, getUp(turtle.state.orientation), -1))

PitchUp ==
    AtSymbol({"^"}) /\ Advance(caseRotate(turtle, sym, getRight(turtle.state.orientation), 1))

PitchDown ==
    AtSymbol({"&"}) /\ Advance(caseRotate(turtle, sym, getRight(turtle.state.orientation), -1))

RollRight ==
    AtSymbol({"/"}) /\ Advance(caseRotate(turtle, sym, getForward(turtle.state.orientation), 1))

RollLeft ==
    AtSymbol({"\\"}) /\ Advance(caseRotate(turtle, sym, getForward(turtle.state.orientation), -1))

Push == AtSymbol({"["}) /\ Advance(casePush(turtle))

Pop == AtSymbol({"]"}) /\ Advance(casePop(turtle))

AddLeaf == AtSymbol({"L"}) /\ Advance(caseLeaf(turtle, sym))

KnownSymbols == {"F", "+", "-", "^", "&", "/", "\\", "[", "]", "L"}

\* default: unknown symbols are ignored
Ignore ==
    /\ tpc = "loop"
    /\ tpos < Len(tinput.sentence)
    /\ sym.symbol \notin KnownSymbols
    /\ Advance(caseDefault(turtle))

\* the loop is over: post-processing and return
ReturnSkeleton ==
    /\ tpc = "loop"
    /\ tpos = Len(tinput.sentence)
    /\ skeleton' = markNodes(turtle)
    /\ tpc' = "skeleton"
    /\ UNCHANGED <<tinput, tpos, turtle, geometryVars, randomVars, engineVars, appVars>>

InitTurtle ==
    /\ tinput \in TurtleInputs
    /\ tpc = "start"
    /\ tpos = 0
    /\ turtle = <<>>
    /\ skeleton = <<>>
    /\ branchConfig = <<>>
    /\ branchGeometryData = <<>>
    /\ leafConfig = <<>>
    /\ leafShape = <<>>
    /\ leafInstanceConfig = <<>>
    /\ leafInstanceData = <<>>
    /\ RandomIdle
    /\ EngineIdle
    /\ AppIdle

\* the configurations a builder is called with: any of the set when it is
\* called on its own, the one of the tree configuration inside buildTree
chosen(field, all) == IF treeConfig = <<>> THEN all ELSE {treeConfig[field]}

\* buildTree, step 3: the branch geometry of the skeleton
BranchConfigs ==
    { [radialSegments |-> 2, textureRepeatY |-> <<1, 2>>],
      [radialSegments |-> 4, textureRepeatY |-> <<2, 1>>] }

BuildBranchGeometry ==
    /\ tpc = "skeleton"
    /\ \E config \in chosen("branchConfig", BranchConfigs) :
          /\ branchConfig' = config
          /\ branchGeometryData' = buildBranchGeometry(skeleton, config)
    /\ tpc' = "branches"
    /\ UNCHANGED <<tinput, tpos, turtle, skeleton, leafConfig, leafShape,
                   leafInstanceConfig, leafInstanceData, randomVars, engineVars, appVars>>

\* buildTree, step 7: the shape shared by all leaves, if there are leaves
LeafConfigs ==
    { [width |-> <<1, 1>>, length |-> <<2, 1>>, curvature |-> <<0, 1>>, segments |-> 2],
      [width |-> <<1, 2>>, length |-> <<1, 1>>, curvature |-> <<3, 8>>,
       segments |-> 1] }

CreateLeafShape ==
    /\ tpc = "branches"
    /\ Len(skeleton.leaves) > 0
    /\ \E config \in chosen("leafShapeConfig", LeafConfigs) :
          /\ leafConfig' = config
          /\ leafShape' = createLeafShape(config)
    /\ tpc' = "leaves"
    /\ UNCHANGED <<tinput, tpos, turtle, skeleton, branchConfig, branchGeometryData,
                   leafInstanceConfig, leafInstanceData, randomVars, engineVars, appVars>>

\* the per-leaf variation a caller asks for; the seeds are "test" and "seed-1"
LeafInstanceConfigs ==
    { [baseColor |-> [r |-> <<1, 5>>, g |-> <<3, 5>>, b |-> <<1, 5>>],
       colorVariation |-> <<1, 2>>, sizeVariation |-> <<1, 5>>,
       rotationScatter |-> <<3, 10>>, seed |-> <<116, 101, 115, 116>>],
      [baseColor |-> [r |-> <<0, 1>>, g |-> <<1, 1>>, b |-> <<1, 2>>],
       colorVariation |-> <<1, 2>>, sizeVariation |-> <<0, 1>>,
       rotationScatter |-> <<0, 1>>, seed |-> <<115, 101, 101, 100, 45, 49>>] }

\* buildTree, step 8: the transforms and colours of the leaves
BuildLeafInstances ==
    /\ tpc = "leaves"
    /\ \E config \in chosen("leafInstanceConfig", LeafInstanceConfigs) :
          /\ leafInstanceConfig' = config
          /\ leafInstanceData' = buildLeafInstances(skeleton.leaves, config)
    /\ tpc' = "instances"
    /\ UNCHANGED <<tinput, tpos, turtle, skeleton, branchConfig, branchGeometryData,
                   leafConfig, leafShape, randomVars, engineVars, appVars>>

\* buildLeafInstances called without buildTree on the leaves of a skeleton
\* that has none, which is the only way it sees an empty list
CallBuildLeafInstances ==
    /\ tpc = "skeleton"
    /\ Len(skeleton.leaves) = 0
    /\ \E config \in LeafInstanceConfigs :
          /\ leafInstanceConfig' = config
          /\ leafInstanceData' = buildLeafInstances(skeleton.leaves, config)
    /\ tpc' = "leafcall"
    /\ UNCHANGED <<tinput, tpos, turtle, skeleton, branchConfig, branchGeometryData,
                   leafConfig, leafShape, randomVars, engineVars, appVars>>

NextTurtle ==
    \/ InterpretSentence
    \/ Forward
    \/ YawLeft
    \/ YawRight
    \/ PitchUp
    \/ PitchDown
    \/ RollRight
    \/ RollLeft
    \/ Push
    \/ Pop
    \/ AddLeaf
    \/ Ignore
    \/ ReturnSkeleton
    \/ BuildBranchGeometry
    \/ CreateLeafShape
    \/ BuildLeafInstances
    \/ CallBuildLeafInstances

SpecTurtle == InitTurtle /\ [][NextTurtle]_vars

(***************************************************************************)
(* buildTree: generateSentence, interpretSentence and the geometry         *)
(* builders on one tree configuration.  The seeds, the iterations, the     *)
(* radial segments and the leaf colours are those of the source; the       *)
(* grammar, its branch angle and variability, and the leaf shape are ones  *)
(* whose numbers stay exact here.                                          *)
(***************************************************************************)
\* 'default-tree', 'leaves' and '-leaves'
DefaultSeed == <<100, 101, 102, 97, 117, 108, 116, 45, 116, 114, 101, 101>>
DefaultLeafSeed == <<108, 101, 97, 118, 101, 115>>
LeafSuffix == <<45, 108, 101, 97, 118, 101, 115>>

defaultTreeConfig ==
    [lsystem |-> "pipeline",
     iterations |-> 4,
     seed |-> DefaultSeed,
     turtleConfig |-> [baseRadius |-> <<1, 10>>, radiusFalloff |-> <<7, 10>>],
     branchConfig |-> [radialSegments |-> 8, textureRepeatY |-> <<2, 1>>],
     leafShapeConfig |-> [width |-> <<1, 2>>, length |-> <<1, 1>>,
                          curvature |-> <<3, 8>>, segments |-> 1],
     leafInstanceConfig |->
         [baseColor |-> [r |-> <<13, 100>>, g |-> <<55, 100>>, b |-> <<13, 100>>],
          colorVariation |-> <<1, 10>>, sizeVariation |-> <<1, 5>>,
          rotationScatter |-> <<3, 10>>, seed |-> DefaultLeafSeed]]

\* paramsToConfig(params): the default configuration with the seed, the
\* iterations and the leaf colour of the user
paramsToConfig(params) ==
    [defaultTreeConfig EXCEPT
        !.iterations = params.iterations,
        !.seed = params.seed,
        !.leafInstanceConfig.baseColor = params.leafColor,
        !.leafInstanceConfig.seed = params.seed \o LeafSuffix]

\* what the user sets: seeds "test" and "seed-1"
TreeParams ==
    { [seed |-> <<116, 101, 115, 116>>, iterations |-> 1,
       leafColor |-> [r |-> <<1, 5>>, g |-> <<3, 5>>, b |-> <<1, 5>>]],
      [seed |-> <<115, 101, 101, 100, 45, 49>>, iterations |-> 2,
       leafColor |-> [r |-> <<0, 1>>, g |-> <<1, 1>>, b |-> <<1, 2>>]] }

TreeConfigs == {defaultTreeConfig} \cup {paramsToConfig(params) : params \in TreeParams}

\* a parameter of an engine symbol as the number the turtle reads
toNumber(v) ==
    CASE v = None -> None
      [] v # None /\ <<v[3], v[4], v[5]>> = One -> RatNorm(<<v[1], v[2]>>)

turtleSentence(sent) ==
    [k \in 1 .. Len(sent) |->
        Sym(sent[k].symbol, toNumber(sent[k].params.length),
            toNumber(sent[k].params.angle), toNumber(sent[k].params.size))]

InitTree ==
    /\ treeConfig \in TreeConfigs
    /\ input = [lsystem |-> treeConfig.lsystem, iterations |-> treeConfig.iterations,
                seed |-> treeConfig.seed]
    /\ call = 1
    /\ pc = "start"
    /\ rng = NoRng
    /\ sentence = <<>> /\ iter = 0 /\ pos = 0 /\ result = <<>> /\ depth = 0
    /\ cands = <<>> /\ selected = NoRule /\ production = <<>> /\ prodIdx = 0
    /\ parsed = <<>> /\ firstOut = <<>>
    /\ RandomIdle
    /\ TurtleIdle
    /\ HookIdle

\* buildTree, step 2: the sentence generateSentence returned goes to
\* interpretSentence with the turtle configuration
InterpretTree ==
    /\ treeConfig # <<>>
    /\ pc = "done"
    /\ tpc = "idle"
    /\ tinput' = [sentence |-> turtleSentence(sentence),
                  config |-> treeConfig.turtleConfig]
    /\ tpc' = "start"
    /\ UNCHANGED <<tpos, turtle, skeleton, geometryVars, randomVars, engineVars,
                   appVars>>

NextTree ==
    \/ GenerateSentence
    \/ CreateSymbol
    \/ ParseAxiomReturn
    \/ ApplyRules
    \/ Return
    \/ ScanBracket
    \/ ScanKeep
    \/ ScanMatch
    \/ SelectRule
    \/ PushProduction
    \/ CallProduceFunc
    \/ ApplyRulesReturn
    \/ InterpretTree
    \/ InterpretSentence
    \/ Forward
    \/ YawLeft
    \/ YawRight
    \/ PitchUp
    \/ PitchDown
    \/ RollRight
    \/ RollLeft
    \/ Push
    \/ Pop
    \/ AddLeaf
    \/ Ignore
    \/ ReturnSkeleton
    \/ BuildBranchGeometry
    \/ CreateLeafShape
    \/ BuildLeafInstances

SpecTree == InitTree /\ [][NextTree]_vars

(***************************************************************************)
(* Properties of the turtle                                                *)
(***************************************************************************)
\* interpretSentence has returned its skeleton
Returned == tpc \notin {"idle", "start", "loop"}

NodeIds(skel) == {skel.nodes[i].id : i \in 1 .. Len(skel.nodes)}

StartingAt(skel, id) ==
    {j \in 1 .. Len(skel.segments) : skel.segments[j].startNodeId = id}

\* C11: every returned skeleton is well formed: ids are dense from 0 in
\* creation order, node 0 alone has no parent, every other parent id is a
\* strictly smaller id, and both ends of every segment are node ids of the
\* skeleton.
SkeletonWellFormed ==
    Returned =>
        /\ \A i \in 1 .. Len(skeleton.nodes) :
              /\ skeleton.nodes[i].id = i - 1
              /\ (skeleton.nodes[i].parentId = <<>>) <=> (i = 1)
              /\ i > 1 => /\ skeleton.nodes[i].parentId[1] >= 0
                          /\ skeleton.nodes[i].parentId[1] < skeleton.nodes[i].id
        /\ \A j \in 1 .. Len(skeleton.segments) :
              /\ skeleton.segments[j].startNodeId \in NodeIds(skeleton)
              /\ skeleton.segments[j].endNodeId \in NodeIds(skeleton)

\* a skeleton with a side branch: some node's parent is not its predecessor
SkeletonWitness ==
    /\ Returned
    /\ Len(skeleton.nodes) >= 4
    /\ \E i \in 2 .. Len(skeleton.nodes) :
          skeleton.nodes[i].parentId[1] < skeleton.nodes[i].id - 1

\* the bracket-nesting level after the first k symbols of a sentence
RECURSIVE NestingAfter(_, _)
NestingAfter(sent, k) ==
    IF k = 0 THEN 0
    ELSE LET l == NestingAfter(sent, k - 1)
         IN  IF sent[k].symbol = "[" THEN l + 1
             ELSE IF sent[k].symbol = "]" /\ l > 0 THEN l - 1
             ELSE l

\* the positions of the F symbols of a sentence, in order
ForwardPositions(sent) ==
    LET isF(k) == sent[k].symbol = "F"
    IN  SelectSeq([k \in 1 .. Len(sent) |-> k], isF)

\* the nesting level at which the i-th node of the skeleton was created
NestingOfNode(i) ==
    IF i = 1 THEN 0
    ELSE NestingAfter(tinput.sentence, ForwardPositions(tinput.sentence)[i - 1] - 1)

\* C12: every node, the root included, has radius baseRadius *
\* radiusFalloff^depth, where depth is the bracket-nesting level at which
\* the node was created.
RadiusLaw ==
    Returned =>
        \A i \in 1 .. Len(skeleton.nodes) :
            /\ skeleton.nodes[i].depth = NestingOfNode(i)
            /\ skeleton.nodes[i].radius =
                   RatMul(tinput.config.baseRadius,
                          RatPow(tinput.config.radiusFalloff, NestingOfNode(i)))

\* a node at depth 0 created right after a node inside a bracket
RadiusWitness ==
    /\ Returned
    /\ \E i \in 2 .. Len(skeleton.nodes) - 1 :
          /\ skeleton.nodes[i].depth >= 1
          /\ skeleton.nodes[i + 1].depth = 0
          /\ skeleton.nodes[i + 1].radius = tinput.config.baseRadius
          /\ skeleton.nodes[i].radius # tinput.config.baseRadius

\* C13: a node is a branch point iff more than one segment starts at it and
\* terminal iff no segment starts at it.
BranchAndTerminalMarks ==
    Returned =>
        \A i \in 1 .. Len(skeleton.nodes) :
            /\ skeleton.nodes[i].isBranchPoint
                   <=> Cardinality(StartingAt(skeleton, skeleton.nodes[i].id)) > 1
            /\ skeleton.nodes[i].isTerminal
                   <=> StartingAt(skeleton, skeleton.nodes[i].id) = {}

\* a skeleton with a branch point, a node with exactly one child and a
\* terminal node
BranchMarkWitness ==
    /\ Returned
    /\ \E i, j, k \in 1 .. Len(skeleton.nodes) :
          /\ skeleton.nodes[i].isBranchPoint
          /\ Cardinality(StartingAt(skeleton, skeleton.nodes[j].id)) = 1
          /\ ~skeleton.nodes[j].isBranchPoint /\ ~skeleton.nodes[j].isTerminal
          /\ skeleton.nodes[k].isTerminal

\* the turtle after the first k symbols of a sentence
RECURSIVE turtleAfter(_, _, _)
turtleAfter(sent, config, k) ==
    IF k = 0 THEN startTurtle(config)
    ELSE CHOOSE r \in {interpretSymbol(t, sent[k], config) :
                          t \in {turtleAfter(sent, config, k - 1)}} : TRUE

\* the position of the '[' that the ']' at position j closes
MatchOf(sent, j) ==
    LET opens == {i \in 1 .. j - 1 :
                     /\ sent[i].symbol = "["
                     /\ NestingAfter(sent, i) = NestingAfter(sent, j - 1)}
    IN  CHOOSE i \in opens : \A h \in opens : h <= i

\* the last symbol processed is a ']' that closes an earlier '['
AfterMatchedPop ==
    /\ tpc = "loop"
    /\ tpos >= 1
    /\ tinput.sentence[tpos].symbol = "]"
    /\ NestingAfter(tinput.sentence, tpos - 1) > 0

\* the cursor state right before the '[' closed by the last symbol
StateBeforePush ==
    turtleAfter(tinput.sentence, tinput.config, MatchOf(tinput.sentence, tpos) - 1).state

\* C14: right after a ']' that closes an earlier '[', the cursor state
\* (position, orientation, radius, depth, currentNodeId) is the cursor state
\* right before that '[', so a following F attaches to the node that was
\* current then.
PopRestoresState ==
    /\ AfterMatchedPop => turtle.state = StateBeforePush
    /\ \A j \in 1 .. Len(tinput.sentence) - 1 :
          ( /\ tpc = "loop" /\ tpos = j + 1
            /\ tinput.sentence[j].symbol = "]"
            /\ NestingAfter(tinput.sentence, j - 1) > 0
            /\ tinput.sentence[j + 1].symbol = "F" )
          => turtle.nodes[Len(turtle.nodes)].parentId =
                 <<turtleAfter(tinput.sentence, tinput.config,
                               MatchOf(tinput.sentence, j) - 1).state.currentNodeId>>

\* a ']' that undoes a move, a rotation and a nested bracket pair
PopRestoresWitness ==
    /\ AfterMatchedPop
    /\ LET before == turtleAfter(tinput.sentence, tinput.config, tpos - 1).state
       IN  /\ before.position # turtle.state.position
           /\ before.orientation # turtle.state.orientation
           /\ before.radius # turtle.state.radius
           /\ before.currentNodeId # turtle.state.currentNodeId
    /\ \E i \in MatchOf(tinput.sentence, tpos) + 1 .. tpos - 1 :
          tinput.sentence[i].symbol = "]"

\* C15: a ']' processed on an empty stack changes nothing (cursor state,
\* stack, nodes, segments, leaves) and interpretation goes on with the next
\* symbol.
PopOnEmptyStackIsNoOp ==
    [][(AtSymbol({"]"}) /\ turtle.stateStack = <<>>)
          => (turtle' = turtle /\ tpos' = tpos + 1 /\ tpc' = "loop")]_vars

\* a stray ']' was processed and the F after it has been processed too
PopOnEmptyWitness ==
    /\ tpc = "loop"
    /\ tpos >= 2
    /\ tinput.sentence[tpos - 1].symbol = "]"
    /\ NestingAfter(tinput.sentence, tpos - 2) = 0
    /\ tinput.sentence[tpos].symbol = "F"
    /\ Len(turtle.nodes) >= 2

\* a sentence without the symbols the turtle does not know
WithoutUnknown(sent) ==
    LET known(x) == x.symbol \in KnownSymbols
    IN  SelectSeq(sent, known)

\* C16: symbols other than F + - ^ & / \ [ ] L have no effect: the skeleton
\* returned for a sentence is the skeleton of the sentence with those
\* symbols removed.
UnknownSymbolsIgnored ==
    Returned =>
        skeleton = markNodes(turtleAfter(WithoutUnknown(tinput.sentence), tinput.config,
                                         Len(WithoutUnknown(tinput.sentence))))

\* unknown symbols before a move, inside a bracket pair and before a leaf
UnknownSymbolsWitness ==
    /\ Returned
    /\ Len(tinput.sentence) >= Len(WithoutUnknown(tinput.sentence)) + 3
    /\ Len(skeleton.nodes) >= 3
    /\ skeleton.leaves # <<>>
    /\ \E i \in 1 .. Len(tinput.sentence) - 1 :
          /\ tinput.sentence[i].symbol \notin KnownSymbols
          /\ NestingAfter(tinput.sentence, i) > 0

\* C17: processing an L appends exactly one leaf point with the cursor's
\* position and orientation and the symbol's size (1 when absent) and
\* changes nothing else: cursor state, stack, nodes and segments stay.
LeafAppendsLeafPoint ==
    [][AtSymbol({"L"})
          => /\ turtle'.leaves =
                    Append(turtle.leaves,
                           [position |-> turtle.state.position,
                            orientation |-> turtle.state.orientation,
                            size |-> IF sym.params.size = None THEN <<1, 1>>
                                     ELSE sym.params.size])
             /\ turtle'.state = turtle.state
             /\ turtle'.stateStack = turtle.stateStack
             /\ turtle'.nodes = turtle.nodes
             /\ turtle'.segments = turtle.segments
             /\ turtle'.nextNodeId = turtle.nextNodeId]_vars

\* a leaf of size 2 placed away from the origin by a rotated turtle
LeafWitness ==
    /\ tpc = "loop"
    /\ tpos >= 1
    /\ tinput.sentence[tpos].symbol = "L"
    /\ turtle.leaves # <<>>
    /\ LET leaf == turtle.leaves[Len(turtle.leaves)]
       IN  /\ leaf.size = <<2, 1>>
           /\ leaf.position = turtle.state.position
           /\ leaf.position # vec3(NumInt(0), NumInt(0), NumInt(0))
           /\ leaf.orientation # identityQuat

RotationSymbols == {"+", "-", "^", "&", "/", "\\"}

\* C18: from every reachable orientation a yaw leaves the local up axis
\* unchanged, a pitch the local right axis and a roll the local forward
\* axis; a rotation symbol creates no node, segment or leaf and does not
\* change position, depth or currentNodeId.
RotationKeepsOwnAxis ==
    [][/\ AtSymbol({"+", "-"})
             => getUp(turtle'.state.orientation) = getUp(turtle.state.orientation)
       /\ AtSymbol({"^", "&"})
             => getRight(turtle'.state.orientation) = getRight(turtle.state.orientation)
       /\ AtSymbol({"/", "\\"})
             => getForward(turtle'.state.orientation)
                    = getForward(turtle.state.orientation)
       /\ AtSymbol(RotationSymbols)
             => /\ turtle'.nodes = turtle.nodes
                /\ turtle'.segments = turtle.segments
                /\ turtle'.leaves = turtle.leaves
                /\ turtle'.state.position = turtle.state.position
                /\ turtle'.state.depth = turtle.state.depth
                /\ turtle'.state.currentNodeId = turtle.state.currentNodeId]_vars

\* the nodes and segments emitted so far, or returned
EmittedNodes == IF Returned THEN skeleton.nodes ELSE turtle.nodes
EmittedSegments == IF Returned THEN skeleton.segments ELSE turtle.segments

\* C19: every segment carries the radius of its start node as startRadius,
\* the radius of its end node as endRadius and the F symbol's length
\* (1 when absent) as length; it starts at the node that was current before
\* the F and ends at the node that is current after it.
SegmentCachesEnds ==
    (tpc = "loop" \/ Returned) =>
        \A k \in 1 .. Len(EmittedSegments) :
            LET seg == EmittedSegments[k]
                at == ForwardPositions(tinput.sentence)[k]
                F == tinput.sentence[at]
            IN  /\ seg.startRadius
                       = EmittedNodes[findNode(EmittedNodes, seg.startNodeId)].radius
                /\ seg.endRadius
                       = EmittedNodes[findNode(EmittedNodes, seg.endNodeId)].radius
                /\ seg.length = IF F.params.length = None THEN <<1, 1>>
                                ELSE F.params.length
                /\ seg.startNodeId
                       = turtleAfter(tinput.sentence, tinput.config, at - 1)
                             .state.currentNodeId
                /\ seg.endNodeId
                       = turtleAfter(tinput.sentence, tinput.config, at)
                             .state.currentNodeId

\* a returned segment that enters a bracket: its radii differ, its length is
\* not the default and it does not start at the node created just before
SegmentWitness ==
    /\ Returned
    /\ \E k \in 1 .. Len(skeleton.segments) :
          /\ skeleton.segments[k].startRadius # skeleton.segments[k].endRadius
          /\ skeleton.segments[k].length # <<1, 1>>
    /\ \E k \in 1 .. Len(skeleton.segments) :
          skeleton.segments[k].startNodeId + 1 < skeleton.segments[k].endNodeId

\* buildBranchGeometry has returned
BranchesBuilt == tpc \notin {"idle", "start", "loop", "skeleton", "leafcall"}

\* the buffer shape of a GeometryData
BufferShape(g) ==
    /\ Len(g.normals) = Len(g.positions)
    /\ 3 * Len(g.uvs) = 2 * Len(g.positions)
    /\ Len(g.indices) % 3 = 0

\* C20: the GeometryData returned by buildBranchGeometry and by
\* createLeafShape have as many normals as positions, two uvs for every
\* three positions and a multiple of three indices; buildBranchGeometry
\* returns 6 * radialSegments * segmentCount positions and as many indices,
\* and four zero-length arrays for a skeleton without segments.
GeometryBufferShapes ==
    /\ BranchesBuilt =>
          LET n == 6 * branchConfig.radialSegments * Len(skeleton.segments)
          IN  /\ BufferShape(branchGeometryData)
              /\ Len(branchGeometryData.positions) = n
              /\ Len(branchGeometryData.indices) = n
              /\ Len(skeleton.segments) = 0 =>
                    /\ branchGeometryData.positions = <<>>
                    /\ branchGeometryData.normals = <<>>
                    /\ branchGeometryData.uvs = <<>>
                    /\ branchGeometryData.indices = <<>>
    /\ tpc = "leaves" => BufferShape(leafShape)

\* both builders have returned: a skeleton of two segments or more built with
\* four vertices per ring, and a leaf shape of two quads
GeometryWitness ==
    /\ tpc = "leaves"
    /\ Len(skeleton.segments) >= 2
    /\ branchConfig.radialSegments = 4
    /\ Len(branchGeometryData.positions) >= 48
    /\ leafConfig.segments = 2
    /\ Len(leafShape.indices) = 12

\* the indices connectRings returned for segment number k (from 0) and the
\* offsets it was called with
IndexBlock(k) ==
    SubSeq(branchGeometryData.indices, 6 * branchConfig.radialSegments * k + 1,
           6 * branchConfig.radialSegments * (k + 1))
Ring1Offset(k) == 2 * branchConfig.radialSegments * k
Ring2Offset(k) == 2 * branchConfig.radialSegments * k + branchConfig.radialSegments

IndicesInOwnBlock ==
    BranchesBuilt =>
        LET n == branchConfig.radialSegments
            idx == branchGeometryData.indices
        IN  /\ \A j \in 1 .. Len(idx) :
                  /\ idx[j] >= 0
                  /\ 3 * idx[j] < Len(branchGeometryData.positions)
            /\ \A j \in 1 .. Len(idx) :
                  LET k == (j - 1) \div (6 * n)
                  IN  idx[j] >= 2 * n * k /\ idx[j] <= 2 * n * (k + 1) - 1

\* two segments start at the same node and the geometry has a block for each
OwnBlockWitness ==
    /\ BranchesBuilt
    /\ \E a, b \in 1 .. Len(skeleton.segments) :
          /\ a < b
          /\ skeleton.segments[a].startNodeId = skeleton.segments[b].startNodeId
          /\ \E j \in 1 .. Len(branchGeometryData.indices) :
                branchGeometryData.indices[j] >= 2 * branchConfig.radialSegments * (b - 1)

\* the v coordinate of the first vertex of the start ring and of the end
\* ring of segment number k (from 0) in the uvs of the branch geometry
StartRingV(k) == branchGeometryData.uvs[4 * branchConfig.radialSegments * k + 2]
EndRingV(k) ==
    branchGeometryData.uvs[4 * branchConfig.radialSegments * k
                               + 2 * branchConfig.radialSegments + 2]

\* C22: in the output of buildBranchGeometry, whenever a segment starts at
\* the node where another segment ends, the v value of its start ring equals
\* the v value of that segment's end ring, for any tree topology.
VContinuousAcrossSegments ==
    BranchesBuilt =>
        \A a, b \in 1 .. Len(skeleton.segments) :
            skeleton.segments[b].startNodeId = skeleton.segments[a].endNodeId
                => StartRingV(b - 1) = EndRingV(a - 1)

\* C28: at every step of interpretSentence the depth equals the number of
\* states on the stack and is never negative; '[' raises both by one and a
\* ']' on a non-empty stack lowers both by one.
DepthIsStackSize ==
    /\ [](tpc = "loop" => /\ turtle.state.depth = Len(turtle.stateStack)
                          /\ turtle.state.depth >= 0)
    /\ [][/\ AtSymbol({"["})
                => /\ turtle'.state.depth = turtle.state.depth + 1
                   /\ Len(turtle'.stateStack) = Len(turtle.stateStack) + 1
          /\ (AtSymbol({"]"}) /\ turtle.stateStack # <<>>)
                => /\ turtle'.state.depth = turtle.state.depth - 1
                   /\ Len(turtle'.stateStack) = Len(turtle.stateStack) - 1]_vars

\* a ']' on an empty stack and later a '[' and its ']' have been processed
DepthWitness ==
    /\ tpc = "loop"
    /\ tpos >= 3
    /\ tinput.sentence[tpos].symbol = "]"
    /\ NestingAfter(tinput.sentence, tpos - 1) = 1
    /\ turtle.state.depth = 0
    /\ turtle.stateStack = <<>>
    /\ \E i \in 1 .. tpos - 1 :
          tinput.sentence[i].symbol = "]" /\ NestingAfter(tinput.sentence, i - 1) = 0
    /\ \E i \in 1 .. tpos - 1 :
          tinput.sentence[i].symbol = "]" /\ NestingAfter(tinput.sentence, i - 1) = 0

\* how many of the first k symbols of a sentence are the symbol c
CountOf(sent, k, c) == Cardinality({i \in 1 .. k : sent[i].symbol = c})

IsPrefix(a, b) == Len(a) <= Len(b) /\ SubSeq(b, 1, Len(a)) = a

\* the nodes without the two flags the final pass sets
Unflagged(nodes) ==
    [i \in 1 .. Len(nodes) |->
        [nodes[i] EXCEPT !.isTerminal = FALSE, !.isBranchPoint = FALSE]]

\* C29: the skeleton only grows: there is one node more than F symbols, one
\* segment per F and one leaf per L; segment number k (from 0) ends at node
\* k + 1 and starts at that node's parent; no step of the symbol loop, ']'
\* included, removes or changes a node, segment or leaf already emitted, and
\* the final pass changes nothing but the two flags.
SkeletonOnlyGrows ==
    /\ [](tpc = "loop" =>
            /\ Len(turtle.nodes) = 1 + CountOf(tinput.sentence, tpos, "F")
            /\ Len(turtle.segments) = CountOf(tinput.sentence, tpos, "F")
            /\ Len(turtle.leaves) = CountOf(tinput.sentence, tpos, "L"))
    /\ [](Returned =>
            /\ Len(skeleton.nodes)
                   = 1 + CountOf(tinput.sentence, Len(tinput.sentence), "F")
            /\ Len(skeleton.segments)
                   = CountOf(tinput.sentence, Len(tinput.sentence), "F")
            /\ Len(skeleton.leaves)
                   = CountOf(tinput.sentence, Len(tinput.sentence), "L")
            /\ \A k \in 0 .. Len(skeleton.segments) - 1 :
                  /\ skeleton.segments[k + 1].endNodeId = k + 1
                  /\ <<skeleton.segments[k + 1].startNodeId>>
                         = skeleton.nodes[findNode(skeleton.nodes, k + 1)].parentId
            /\ \A i \in 2 .. Len(skeleton.nodes) :
                  Cardinality({k \in 1 .. Len(skeleton.segments) :
                                   skeleton.segments[k].endNodeId
                                       = skeleton.nodes[i].id}) = 1)
    /\ [][/\ (tpc = "loop" /\ tpc' = "loop")
                => /\ IsPrefix(turtle.nodes, turtle'.nodes)
                   /\ IsPrefix(turtle.segments, turtle'.segments)
                   /\ IsPrefix(turtle.leaves, turtle'.leaves)
          /\ (tpc = "loop" /\ tpc' = "skeleton")
                => /\ Unflagged(skeleton'.nodes) = turtle.nodes
                   /\ skeleton'.segments = turtle.segments
                   /\ skeleton'.leaves = turtle.leaves]_vars

\* a returned skeleton of a sentence with a bracket closed between two F
\* symbols and with a leaf
OnlyGrowsWitness ==
    /\ Returned
    /\ Len(skeleton.segments) >= 2
    /\ Len(skeleton.leaves) >= 1
    /\ \E i \in 2 .. Len(tinput.sentence) - 1 :
          /\ tinput.sentence[i].symbol = "]"
          /\ NestingAfter(tinput.sentence, i - 1) > 0
          /\ \E j \in 1 .. i - 1 : tinput.sentence[j].symbol = "F"
          /\ \E j \in i + 1 .. Len(tinput.sentence) : tinput.sentence[j].symbol = "F"


\* the leaf instance data is there: buildLeafInstances has returned
InstancesBuilt == tpc \in {"instances", "leafcall"}

\* a stored colour channel <<q, r, den>> lies in [0, 1]
InUnitRange(v) ==
    /\ v[1] >= 0
    /\ v[1] < v[3] * W16 \/ (v[1] = v[3] * W16 /\ v[2] = 0)

\* C23: for a leaf list of length n, buildLeafInstances returns count n,
\* 16 * n matrix entries and 3 * n colour entries, every colour entry within
\* [0, 1] whatever colorVariation is; for n = 0 the buffers are empty and the
\* count is 0
LeafInstanceShape ==
    InstancesBuilt =>
        LET n == Len(skeleton.leaves)
        IN  /\ leafInstanceData.count = n
            /\ Len(leafInstanceData.matrices) = 16 * n
            /\ Len(leafInstanceData.colors) = 3 * n
            /\ \A k \in 1 .. Len(leafInstanceData.colors) :
                  InUnitRange(leafInstanceData.colors[k])
            /\ n = 0 => /\ leafInstanceData.matrices = <<>>
                        /\ leafInstanceData.colors = <<>>

\* two or more leaves, one colour entry clamped down to 1 and one clamped up to 0
LeafInstanceWitness ==
    /\ InstancesBuilt
    /\ leafInstanceData.count >= 2
    /\ \E k \in 1 .. Len(leafInstanceData.colors) :
          /\ leafInstanceData.colors[k][1] = 0
          /\ leafInstanceData.colors[k][2] = 0
    /\ \E k \in 1 .. Len(leafInstanceData.colors) :
          leafInstanceData.colors[k][1] = leafInstanceData.colors[k][3] * W16

\* no leaves: the direct call returned empty buffers
NoLeavesWitness ==
    /\ tpc = "leafcall"
    /\ skeleton.leaves = <<>>
    /\ leafInstanceData.count = 0


\* buildTree has run to its end: the geometry it returns is there
TreeReturned ==
    \/ tpc = "instances"
    \/ tpc = "branches" /\ Len(skeleton.leaves) = 0

\* some F of the sentence carries a negative length
NegativeLength(sent) ==
    \E k \in 1 .. Len(sent) :
        /\ sent[k].symbol = "F"
        /\ sent[k].params.length # None
        /\ sent[k].params.length[1] < 0

\* C26: buildTree returns no geometry when the configuration is unsupported:
\* when radialSegments is below 3 or a length is negative, no run reaches its
\* end with branch geometry
UnsupportedConfigRejected ==
    TreeReturned =>
        /\ branchConfig.radialSegments >= 3
        /\ ~NegativeLength(tinput.sentence)

\* the two unsupported cases, each returning geometry
TwoSidedRingReturned ==
    /\ TreeReturned
    /\ branchConfig.radialSegments = 2
    /\ Len(branchGeometryData.positions) > 0

NegativeLengthReturned ==
    /\ TreeReturned
    /\ branchConfig.radialSegments >= 3
    /\ NegativeLength(tinput.sentence)
    /\ Len(branchGeometryData.positions) > 0


\* the characters some rule of the L-system matches
MatchedChars(ls) == {ls.rules[k].match : k \in 1 .. Len(ls.rules)}

\* every match group of the L-system has positive total odds
PositiveOdds(ls) ==
    \A char \in MatchedChars(ls) :
        sumOdds(matchingRules(ls.rules, char),
                Len(matchingRules(ls.rules, char))) > 0

\* C25: an L-system with a match group of total odds <= 0 is rejected before
\* any rewriting: selectRule is never entered with candidates whose odds sum
\* to zero or less, and generateSentence returns no sentence for it
DegenerateOddsRejected ==
    /\ pc = "select" => sumOdds(cands, Len(cands)) > 0
    /\ pc = "done" => PositiveOdds(lsystem)

\* a sentence returned after a selection among rules whose odds sum to zero
ZeroOddsSentenceReturned ==
    /\ pc = "done"
    /\ input.iterations >= 1
    /\ ~PositiveOdds(lsystem)
    /\ \E k \in 1 .. Len(sentence) : sentence[k].symbol \in {"L", "+"}


(***************************************************************************)
(* useDebouncedValue in a mounted component.  Time passes in ticks.  A     *)
(* render with a new value or delay commits, runs the cleanup of the       *)
(* previous effect and then the effect in one step: the input changes come *)
(* from slider events, whose renders React commits together with their     *)
(* effects before it runs any timer callback.  A timer callback may run    *)
(* late, never early.                                                      *)
(***************************************************************************)
MaxDelay == 2

HookValues == 1 .. 3
Delays == 0 .. MaxDelay

\* setTimeout(() => { setDebouncedValue(value) }, delay): the pending timer,
\* marked as the one whose id the effect keeps
setTimeout(v, d) == [value |-> v, remaining |-> d, current |-> TRUE]

\* a cleanup that forgets the timer without clearing it
cleanupKeepsTimer(pending) == {[t EXCEPT !.current = FALSE] : t \in pending}

\* the cleanup of the effect: clearTimeout(timeoutId)
cleanup(pending) == {t \in pending : ~t.current}

\* useEffect(..., [value, delay]) on a change of value or delay: the cleanup
\* of the previous effect, then the effect
useEffect(pending, v, d) == cleanup(pending) \cup {setTimeout(v, d)}

\* the first render: useState(value), then the effect
InitHook ==
    /\ mounted = TRUE
    /\ inputValue \in HookValues
    /\ delay \in Delays
    /\ debouncedValue = inputValue
    /\ timers = {setTimeout(inputValue, delay)}
    /\ held = 0
    /\ treeConfig = <<>>
    /\ RandomIdle
    /\ EngineIdle
    /\ TurtleIdle

\* the component renders with another value or delay
Render ==
    /\ mounted
    /\ \E v \in HookValues, d \in Delays :
          /\ <<v, d>> # <<inputValue, delay>>
          /\ inputValue' = v
          /\ delay' = d
          /\ timers' = useEffect(timers, v, d)
          /\ held' = IF v = inputValue THEN held ELSE 0
    /\ UNCHANGED <<mounted, debouncedValue, treeConfig, randomVars, engineVars,
                   turtleVars>>

\* one unit of time passes; held is the time the value has been the input,
\* counted up to MaxDelay
Tick ==
    /\ timers' = {[t EXCEPT !.remaining = IF @ > 0 THEN @ - 1 ELSE 0] : t \in timers}
    /\ held' = IF held < MaxDelay THEN held + 1 ELSE held
    /\ UNCHANGED <<mounted, inputValue, delay, debouncedValue, treeConfig,
                   randomVars, engineVars, turtleVars>>

\* a timer whose time has come runs its callback: setDebouncedValue(value),
\* which does nothing once the component is gone
Timeout ==
    /\ \E t \in timers :
          /\ t.remaining = 0
          /\ timers' = timers \ {t}
          /\ debouncedValue' = IF mounted THEN t.value ELSE debouncedValue
    /\ UNCHANGED <<mounted, inputValue, delay, held, treeConfig, randomVars,
                   engineVars, turtleVars>>

\* the component unmounts: the cleanup of the last effect runs
Unmount ==
    /\ mounted
    /\ mounted' = FALSE
    /\ timers' = cleanup(timers)
    /\ UNCHANGED <<inputValue, delay, debouncedValue, held, treeConfig, randomVars,
                   engineVars, turtleVars>>

NextHook ==
    \/ Render
    \/ Tick
    \/ Timeout
    \/ Unmount

SpecHook == InitHook /\ [][NextHook]_vars

\* time passes, and the event loop runs the callback of a timer that is due
FairSpecHook == SpecHook /\ WF_vars(Tick) /\ WF_vars(Timeout)

(***************************************************************************)
(* Properties of useDebouncedValue                                         *)
(***************************************************************************)
\* the only timer pending while mounted is the one of the current value and delay
OnlyCurrentTimer ==
    \A t \in timers :
        /\ mounted
        /\ t.current
        /\ t.value = inputValue
        /\ t.remaining <= delay
        /\ timers = {t}

\* C27: the debounced value changes only to the value that is the input and
\* has been the input for at least delay ticks; a change of value or delay
\* cancels the pending timer, so only the timer of the current value and
\* delay is ever pending and a replaced value never becomes the debounced
\* value; and while the component stays mounted with value v and delay d
\* unchanged, the debounced value eventually equals v
DebounceContract ==
    /\ []OnlyCurrentTimer
    /\ [][debouncedValue' # debouncedValue =>
             /\ debouncedValue' = inputValue
             /\ inputValue' = inputValue
             /\ held >= delay]_vars
    /\ \A v \in HookValues, d \in Delays :
          (mounted /\ inputValue = v /\ delay = d)
              ~> (debouncedValue = v \/ inputValue # v \/ delay # d \/ ~mounted)

\* the input went from one value to another and back within the delay, and
\* after the full delay the debounced value is still the one from before
DebounceWitness ==
    /\ mounted
    /\ delay = MaxDelay
    /\ held = MaxDelay
    /\ debouncedValue # inputValue
    /\ \E t \in timers : t.remaining = 0


(***************************************************************************)
(* Properties of buildTree                                                 *)
(***************************************************************************)
\* the leaf instance data of a leaf list under the leaf configuration of the
\* tree with the given seed in place of its own
leafDataFromSeed(leaves, seed) ==
    buildLeafInstances(leaves, [treeConfig.leafInstanceConfig EXCEPT !.seed = seed])

\* C24: in every run of buildTree the leaf instance data comes from a random
\* source of its own whose seed is the base seed of the run followed by the
\* fixed suffix, so that it is the same function of the base seed and the
\* leaf list in every run
LeafSeedFromBaseSeed ==
    tpc = "instances" =>
        /\ leafInstanceConfig.seed = treeConfig.seed \o LeafSuffix
        /\ leafInstanceData =
               leafDataFromSeed(skeleton.leaves, treeConfig.seed \o LeafSuffix)

\* the run of the default configuration: its leaf data is that of the seed
\* 'leaves', not that of 'default-tree-leaves'
DefaultLeafSeedUsed ==
    /\ tpc = "instances"
    /\ treeConfig.seed = DefaultSeed
    /\ leafInstanceConfig.seed = DefaultLeafSeed
    /\ leafInstanceData = leafDataFromSeed(skeleton.leaves, DefaultLeafSeed)
    /\ leafInstanceData # leafDataFromSeed(skeleton.leaves, DefaultSeed \o LeafSuffix)

\* what does hold in every run: the leaf data is that of a fresh source for
\* the seed of the leaf configuration, whatever the grammar source has drawn,
\* and the step that draws for the leaves leaves the grammar source alone
LeafSourceSeparate ==
    /\ [](tpc = "instances" =>
             leafInstanceData =
                 leafDataFromSeed(skeleton.leaves, treeConfig.leafInstanceConfig.seed))
    /\ [][tpc' = "instances" => rng' = rng]_vars
    /\ [](tpc = "instances" => rng # createRandom(treeConfig.seed))

====
